---- MODULE Spec2Model ----
(***************************************************************************)
(* RingStatus epoch tagger (src/tagger.js): the classifier, the cadence    *)
(* policy, the update builder and the run of the job against the record    *)
(* store and the clock source.                                             *)
(*                                                                         *)
(* Representation.  A text is a sequence of one-character strings, so that *)
(* trimming, case folding and the regular expressions of the parsers are   *)
(* computed character by character.  A field that is missing from a record *)
(* (undefined) and the empty text behave alike on every path of the code   *)
(* (`x ?? ""`, `a || b`), and both are the empty sequence.  A number-valued*)
(* cell is a record [t, v] with t in "num", "null", "undefined", because   *)
(* buildUpdate compares with the strict `!==`, which tells the three apart.*)
(* Epochs are kept in seconds: every term of the millisecond arithmetic of *)
(* toEpochSecondsLocal is a multiple of 1000, so Math.floor(ms / 1000) is  *)
(* exact and the seconds computation gives the same number.                *)
(***************************************************************************)
EXTENDS Integers, Sequences, FiniteSets, TLC

VARIABLES
    store,      \* the record store: tables "shows", "watch_schedule", "watch_trips"
    runs,       \* per run of the job: the locals of main / tagOnce / the request loops
    log,        \* every request issued so far, in order (observation only)
    clockSeq,   \* number of clock responses served so far (observation only)
    probe       \* inputs and result of a pure function under test

vars == <<store, runs, log, clockSeq, probe>>

----------------------------------------------------------------------------
(* Bounds of the model *)

MaxSched == 1
MaxTrips == 1

----------------------------------------------------------------------------
(* Values *)

NumV(n) == [t |-> "num", v |-> n]
NullV == [t |-> "null", v |-> 0]
UndefV == [t |-> "undefined", v |-> 0]

\* `x == null` of JavaScript: true of null and of undefined
IsNullish(x) == x.t \in {"null", "undefined"}

\* F applied to the value of x: x is evaluated once, however often F uses it
WithValue(x, F(_)) == CHOOSE r \in {F(v) : v \in {x}} : TRUE

Min(S) == CHOOSE x \in S : \A y \in S : x <= y
Max(S) == CHOOSE x \in S : \A y \in S : x >= y

----------------------------------------------------------------------------
(* Text primitives: String.prototype.trim / toLowerCase / toUpperCase,     *)
(* \d and unary plus on a digit string.                                    *)

Digits == <<"0", "1", "2", "3", "4", "5", "6", "7", "8", "9">>
UpperLetters == <<"A", "B", "C", "D", "E", "F", "G", "H", "I", "J", "K", "L", "M",
                  "N", "O", "P", "Q", "R", "S", "T", "U", "V", "W", "X", "Y", "Z">>
LowerLetters == <<"a", "b", "c", "d", "e", "f", "g", "h", "i", "j", "k", "l", "m",
                  "n", "o", "p", "q", "r", "s", "t", "u", "v", "w", "x", "y", "z">>

IsDigit(c) == \E k \in 1..10 : Digits[k] = c
DigitVal(c) == (CHOOSE k \in 1..10 : Digits[k] = c) - 1
IsSpace(c) == c \in {" ", "\t", "\n"}

AllDigits(s) == \A k \in 1..Len(s) : IsDigit(s[k])

RECURSIVE ToNum(_)
ToNum(s) ==
    IF s = <<>> THEN 0
    ELSE 10 * ToNum(SubSeq(s, 1, Len(s) - 1)) + DigitVal(s[Len(s)])

trim(s) ==
    LET idx == {k \in 1..Len(s) : ~IsSpace(s[k])}
    IN  IF idx = {} THEN <<>> ELSE SubSeq(s, Min(idx), Max(idx))

toLowerCase(s) ==
    [k \in 1..Len(s) |->
        IF \E j \in 1..26 : UpperLetters[j] = s[k]
        THEN LowerLetters[CHOOSE j \in 1..26 : UpperLetters[j] = s[k]]
        ELSE s[k]]

toUpperCase(s) ==
    [k \in 1..Len(s) |->
        IF \E j \in 1..26 : LowerLetters[j] = s[k]
        THEN UpperLetters[CHOOSE j \in 1..26 : LowerLetters[j] = s[k]]
        ELSE s[k]]

\* String.prototype.includes
includes(s, sub) ==
    \E k \in 1..(Len(s) - Len(sub) + 1) : SubSeq(s, k, k + Len(sub) - 1) = sub

\* String.prototype.startsWith
startsWith(s, pre) == Len(s) >= Len(pre) /\ SubSeq(s, 1, Len(pre)) = pre

----------------------------------------------------------------------------
(* Status and mode normalisation *)

T_DAY == <<"D", "A", "Y">>
T_NIGHT == <<"N", "I", "G", "H", "T">>
T_HOLDOVER == <<"H", "O", "L", "D", "O", "V", "E", "R">>
T_completed == <<"c", "o", "m", "p", "l", "e", "t", "e", "d">>
T_underway == <<"u", "n", "d", "e", "r", "w", "a", "y">>

\* variant: a value that is none of the three names means DAY
normalizeModeDefaultsToDay(v) ==
    LET s == toUpperCase(trim(v))
    IN  IF s = T_DAY THEN "DAY"
        ELSE IF s = T_NIGHT THEN "NIGHT"
        ELSE IF s = T_HOLDOVER THEN "HOLDOVER"
        ELSE "DAY"

normalizeMode(v) ==
    LET s == toUpperCase(trim(v))
    IN  IF s = T_DAY THEN "DAY"
        ELSE IF s = T_NIGHT THEN "NIGHT"
        ELSE IF s = T_HOLDOVER THEN "HOLDOVER"
        ELSE "HOLDOVER"

isCompleted(statusVal) == toLowerCase(trim(statusVal)) = T_completed

isUnderway(statusVal) == toLowerCase(trim(statusVal)) = T_underway

\* v is a cell [t, v] with t in "bool" (v a 0/1 truth value), "num", "null", "undefined".
\* Number(false) = 0, Number(null) = 0, Number(undefined) = NaN.
isGoneIn(v) ==
    IF v.t = "bool" /\ v.v = 1 THEN TRUE
    ELSE /\ v.t \in {"num", "bool", "null"}
         /\ v.v = 1

----------------------------------------------------------------------------
(* Calendar arithmetic of Date.UTC / setUTCDate / getUTC*                  *)

\* days since 1970-01-01 of the proleptic Gregorian date y-m-d (m in 1..12)
DaysFromCivil(y, m, d) ==
    LET yy == IF m <= 2 THEN y - 1 ELSE y
        era == yy \div 400
        yoe == yy - era * 400
        mp == IF m > 2 THEN m - 3 ELSE m + 9
        doy == (153 * mp + 2) \div 5 + d - 1
        doe == yoe * 365 + yoe \div 4 - yoe \div 100 + doy
    IN  era * 146097 + doe - 719468

\* the inverse: the calendar date of a day number
CivilFromDays(z0) ==
    LET z == z0 + 719468
        era == z \div 146097
        doe == z - era * 146097
        yoe == (doe - doe \div 1460 + doe \div 36524 - doe \div 146096) \div 365
        doy == doe - (365 * yoe + yoe \div 4 - yoe \div 100)
        mp == (5 * doy + 2) \div 153
        d == doy - (153 * mp + 2) \div 5 + 1
        m == IF mp < 10 THEN mp + 3 ELSE mp - 9
        y == yoe + era * 400 + (IF m <= 2 THEN 1 ELSE 0)
    IN  [y |-> y, mo |-> m, d |-> d]

\* Date.UTC(y, mo0, d, h, mi, se) / 1000, mo0 the zero-based month.  Out-of-range
\* fields carry over (month 12 is January of the next year, day 32, hour 24 ...),
\* and a year in 0..99 means 1900 + year.
DateUTCSeconds(y, mo0, d, h, mi, se) ==
    LET yr == IF y >= 0 /\ y <= 99 THEN 1900 + y ELSE y
        ym == yr + (mo0 \div 12)
        mn == mo0 % 12
    IN  (DaysFromCivil(ym, mn + 1, 1) + d - 1) * 86400 + h * 3600 + mi * 60 + se

----------------------------------------------------------------------------
(* Time parser *)

NoDate == [ok |-> FALSE, y |-> 0, mo |-> 0, d |-> 0]
NoTime == [ok |-> FALSE, h |-> 0, mi |-> 0, se |-> 0, ampm |-> ""]

\* /^(\d{4})-(\d{2})-(\d{2})$/
MatchIsoDate(s) ==
    /\ Len(s) = 10
    /\ s[5] = "-" /\ s[8] = "-"
    /\ AllDigits(SubSeq(s, 1, 4)) /\ AllDigits(SubSeq(s, 6, 7)) /\ AllDigits(SubSeq(s, 9, 10))

\* /^(\d{1,2})\/(\d{1,2})\/(\d{2}|\d{4})$/ : the lengths <<a, b, c>> of the three groups
SlashShapes(s) ==
    {sh \in {1, 2} \X {1, 2} \X {2, 4} :
        /\ Len(s) = sh[1] + sh[2] + sh[3] + 2
        /\ s[sh[1] + 1] = "/" /\ s[sh[1] + sh[2] + 2] = "/"
        /\ AllDigits(SubSeq(s, 1, sh[1]))
        /\ AllDigits(SubSeq(s, sh[1] + 2, sh[1] + sh[2] + 1))
        /\ AllDigits(SubSeq(s, sh[1] + sh[2] + 3, Len(s)))}

parseDateParts(dateStr) ==
    WithValue(trim(dateStr), LAMBDA s :
        IF s = <<>> THEN NoDate
        ELSE IF MatchIsoDate(s)
        THEN [ok |-> TRUE, y |-> ToNum(SubSeq(s, 1, 4)),
              mo |-> ToNum(SubSeq(s, 6, 7)), d |-> ToNum(SubSeq(s, 9, 10))]
        ELSE IF SlashShapes(s) # {}
        THEN LET sh == CHOOSE x \in SlashShapes(s) : TRUE
                 yRaw == ToNum(SubSeq(s, sh[1] + sh[2] + 3, Len(s)))
             IN  [ok |-> TRUE,
                  y |-> IF sh[3] = 2 THEN 2000 + yRaw ELSE yRaw,
                  mo |-> ToNum(SubSeq(s, 1, sh[1])),
                  d |-> ToNum(SubSeq(s, sh[1] + 2, sh[1] + sh[2] + 1))]
        ELSE NoDate)

\* /^(\d{1,2}):(\d{2})(?::(\d{2}))?/ matched at the start of s: the set of
\* <<hour digits, end position>> of the matches
ClockPrefixes(s) ==
    {p \in {1, 2} \X (1..Len(s)) :
        /\ Len(s) >= p[1] + 3
        /\ AllDigits(SubSeq(s, 1, p[1]))
        /\ s[p[1] + 1] = ":"
        /\ AllDigits(SubSeq(s, p[1] + 2, p[1] + 3))
        /\ \/ p[2] = p[1] + 3
           \/ /\ p[2] = p[1] + 6
              /\ Len(s) >= p[1] + 6
              /\ s[p[1] + 4] = ":"
              /\ AllDigits(SubSeq(s, p[1] + 5, p[1] + 6))}

ClockOf(s, p, ampm) ==
    [ok |-> TRUE,
     h |-> ToNum(SubSeq(s, 1, p[1])),
     mi |-> ToNum(SubSeq(s, p[1] + 2, p[1] + 3)),
     se |-> IF p[2] = p[1] + 6 THEN ToNum(SubSeq(s, p[1] + 5, p[1] + 6)) ELSE 0,
     ampm |-> ampm]

\* the meridiem /\s*([AP]M)$/i after a clock prefix ending at position e
MeridiemAfter(s, e) ==
    LET rest == SubSeq(s, e + 1, Len(s))
        tail == IF Len(rest) >= 2 THEN toUpperCase(SubSeq(rest, Len(rest) - 1, Len(rest))) ELSE <<>>
    IN  IF /\ Len(rest) >= 2
           /\ tail \in {<<"A", "M">>, <<"P", "M">>}
           /\ \A k \in 1..(Len(rest) - 2) : IsSpace(rest[k])
        THEN (IF tail[1] = "A" THEN "AM" ELSE "PM")
        ELSE ""

parseTimeParts(timeStr) ==
    WithValue(trim(timeStr), LAMBDA s :
        WithValue(ClockPrefixes(s), LAMBDA prefixes :
            LET full == {p \in prefixes : p[2] = Len(s)}
                mer == {p \in prefixes : MeridiemAfter(s, p[2]) # ""}
            IN  IF s = <<>> THEN NoTime
                ELSE IF full # {} THEN ClockOf(s, CHOOSE p \in full : TRUE, "")
                ELSE IF mer # {}
                THEN LET p == CHOOSE q \in mer : TRUE IN ClockOf(s, p, MeridiemAfter(s, p[2]))
                ELSE NoTime))

\* variant: the rollover takes 24 from the hour and leaves the date
toEpochSecondsLocalSameDay(dateStr, timeStr, tzOffsetMinutes, allow24Hour) ==
    WithValue(<<parseDateParts(dateStr), parseTimeParts(timeStr)>>, LAMBDA parts :
        LET dp == parts[1]
            tp == parts[2]
            h0 == IF tp.ampm # ""
                  THEN (IF tp.h = 12 THEN 0 ELSE tp.h) + (IF tp.ampm = "PM" THEN 12 ELSE 0)
                  ELSE tp.h
            roll == allow24Hour /\ h0 >= 24
            nd == CivilFromDays(DateUTCSeconds(dp.y, dp.mo - 1, dp.d, 0, 0, 0) \div 86400 + 1)
            y == dp.y
            mo == dp.mo
            d == dp.d
            h == IF roll THEN h0 - 24 ELSE h0
        IN  IF ~dp.ok \/ ~tp.ok THEN NullV
            ELSE NumV(DateUTCSeconds(y, mo - 1, d, h, tp.mi, tp.se) - tzOffsetMinutes * 60))

\* variant: hour 12 of a 12-hour text is not taken as 0 first
toEpochSecondsLocalNoonKept(dateStr, timeStr, tzOffsetMinutes, allow24Hour) ==
    WithValue(<<parseDateParts(dateStr), parseTimeParts(timeStr)>>, LAMBDA parts :
        LET dp == parts[1]
            tp == parts[2]
            h0 == IF tp.ampm # ""
                  THEN tp.h + (IF tp.ampm = "PM" THEN 12 ELSE 0)
                  ELSE tp.h
            roll == allow24Hour /\ h0 >= 24
            nd == CivilFromDays(DateUTCSeconds(dp.y, dp.mo - 1, dp.d, 0, 0, 0) \div 86400 + 1)
            y == IF roll THEN nd.y ELSE dp.y
            mo == IF roll THEN nd.mo ELSE dp.mo
            d == IF roll THEN nd.d ELSE dp.d
            h == IF roll THEN h0 - 24 ELSE h0
        IN  IF ~dp.ok \/ ~tp.ok THEN NullV
            ELSE NumV(DateUTCSeconds(y, mo - 1, d, h, tp.mi, tp.se) - tzOffsetMinutes * 60))

\* the result is a cell: NullV when either text does not parse
toEpochSecondsLocal(dateStr, timeStr, tzOffsetMinutes, allow24Hour) ==
    WithValue(<<parseDateParts(dateStr), parseTimeParts(timeStr)>>, LAMBDA parts :
        LET dp == parts[1]
            tp == parts[2]
            h0 == IF tp.ampm # ""
                  THEN (IF tp.h = 12 THEN 0 ELSE tp.h) + (IF tp.ampm = "PM" THEN 12 ELSE 0)
                  ELSE tp.h
            roll == allow24Hour /\ h0 >= 24
            nd == CivilFromDays(DateUTCSeconds(dp.y, dp.mo - 1, dp.d, 0, 0, 0) \div 86400 + 1)
            y == IF roll THEN nd.y ELSE dp.y
            mo == IF roll THEN nd.mo ELSE dp.mo
            d == IF roll THEN nd.d ELSE dp.d
            h == IF roll THEN h0 - 24 ELSE h0
        IN  IF ~dp.ok \/ ~tp.ok THEN NullV
            ELSE NumV(DateUTCSeconds(y, mo - 1, d, h, tp.mi, tp.se) - tzOffsetMinutes * 60))

----------------------------------------------------------------------------
(* Field names (the defaults of the environment) *)

FIELD_MODE == "mode"
FIELD_EPOCH == "epoch"
FIELD_TEMP == "temp"
FIELD_BUCKET == "bucket"
FIELD_NEXT_DUE == "next_due_epoch"
SCHED_SHOW_DATE == "show_date"
SCHED_TIME_LATEST == "latest_estimated_start_time"
SCHED_TIME_BASE == "estimated_start_time"
SCHED_STATUS == "latestStatus"
TRIP_DT == "dt"
TRIP_GO_LATEST == "latest_estimated_go_time"
TRIP_GO_BASE == "estimated_go_time"
TRIP_START_FALLB == "estimated_start_time"
TRIP_STATUS == "latestStatus"
TRIP_GONEIN == "lastGonein"

TABLE_SHOWS == "shows"
TABLE_SCHEDULE == "watch_schedule"
TABLE_TRIPS == "watch_trips"

\* a || b on texts: the empty text is falsy
OrText(a, b) == IF a # <<>> THEN a ELSE b

----------------------------------------------------------------------------
(* Cadence policy *)

\* variant: the NIGHT branch answers WARM like the DAY branch does
intervalSecondsForWarmAlike(mode, temp) ==
    IF mode = "HOLDOVER" THEN NullV
    ELSE IF temp = "DONE" THEN NullV
    ELSE IF mode = "DAY"
    THEN IF temp = "COLD" THEN NumV(1200)
         ELSE IF temp = "WARM" THEN NumV(300)
         ELSE IF temp = "HOT" \/ temp = "LIVE" THEN NumV(180)
         ELSE NumV(300)
    ELSE IF temp = "HOT" \/ temp = "LIVE" THEN NumV(300)
    ELSE IF temp = "WARM" THEN NumV(300)
    ELSE NumV(1200)

intervalSecondsFor(mode, temp) ==
    IF mode = "HOLDOVER" THEN NullV
    ELSE IF temp = "DONE" THEN NullV
    ELSE IF mode = "DAY"
    THEN IF temp = "COLD" THEN NumV(1200)
         ELSE IF temp = "WARM" THEN NumV(300)
         ELSE IF temp = "HOT" \/ temp = "LIVE" THEN NumV(180)
         ELSE NumV(300)
    ELSE IF temp = "HOT" \/ temp = "LIVE" THEN NumV(300)
    ELSE NumV(1200)

----------------------------------------------------------------------------
(* Bucket classifier *)

\* variant: the HOT threshold is exclusive (till < 1800)
computeTempScheduleExclusive(fields, nowEpoch, tzOffsetMinutes) ==
    LET status == fields[SCHED_STATUS]
        dateStr == fields[SCHED_SHOW_DATE]
        tLatest == fields[SCHED_TIME_LATEST]
        tBase == fields[SCHED_TIME_BASE]
        timeStr == OrText(tLatest, tBase)
    IN  WithValue(toEpochSecondsLocal(dateStr, timeStr, tzOffsetMinutes, FALSE), LAMBDA targetEpoch :
        IF isCompleted(status) THEN [temp |-> "DONE", targetEpoch |-> NullV]
        ELSE IF isUnderway(status) THEN [temp |-> "LIVE", targetEpoch |-> NullV]
        ELSE IF IsNullish(targetEpoch) THEN [temp |-> "COLD", targetEpoch |-> NullV]
        ELSE LET till == targetEpoch.v - nowEpoch
             IN  IF till <= 0 THEN [temp |-> "HOT", targetEpoch |-> targetEpoch]
                 ELSE IF till < 1800 THEN [temp |-> "HOT", targetEpoch |-> targetEpoch]
                 ELSE IF till <= 3600 THEN [temp |-> "WARM", targetEpoch |-> targetEpoch]
                 ELSE [temp |-> "COLD", targetEpoch |-> targetEpoch])

computeTempSchedule(fields, nowEpoch, tzOffsetMinutes) ==
    LET status == fields[SCHED_STATUS]
        dateStr == fields[SCHED_SHOW_DATE]
        tLatest == fields[SCHED_TIME_LATEST]
        tBase == fields[SCHED_TIME_BASE]
        timeStr == OrText(tLatest, tBase)
    IN  WithValue(toEpochSecondsLocal(dateStr, timeStr, tzOffsetMinutes, FALSE), LAMBDA targetEpoch :
        IF isCompleted(status) THEN [temp |-> "DONE", targetEpoch |-> NullV]
        ELSE IF isUnderway(status) THEN [temp |-> "LIVE", targetEpoch |-> NullV]
        ELSE IF IsNullish(targetEpoch) THEN [temp |-> "COLD", targetEpoch |-> NullV]
        ELSE LET till == targetEpoch.v - nowEpoch
             IN  IF till <= 0 THEN [temp |-> "HOT", targetEpoch |-> targetEpoch]
                 ELSE IF till <= 1800 THEN [temp |-> "HOT", targetEpoch |-> targetEpoch]
                 ELSE IF till <= 3600 THEN [temp |-> "WARM", targetEpoch |-> targetEpoch]
                 ELSE [temp |-> "COLD", targetEpoch |-> targetEpoch])

T_midnight == <<"0", "0", ":", "0", "0", ":", "0", "0">>
T_24 == <<"2", "4">>

\* variant: the base go-time is a candidate whatever it contains
TripTimeStrSentinelKept(fields) ==
    LET tLatest == fields[TRIP_GO_LATEST]
        tGo == fields[TRIP_GO_BASE]
        tStart == fields[TRIP_START_FALLB]
    IN  OrText(tLatest, OrText(tGo, tStart))

\* lines 303-314: the time text a trip is classified by, and the rollover switch
TripTimeStr(fields) ==
    LET tLatest == fields[TRIP_GO_LATEST]
        tGo == fields[TRIP_GO_BASE]
        tStart == fields[TRIP_START_FALLB]
        goCandidate == IF tGo # <<>> /\ ~includes(tGo, T_midnight) THEN tGo ELSE <<>>
    IN  OrText(tLatest, OrText(goCandidate, tStart))

TripAllow24(timeStr) == timeStr # <<>> /\ startsWith(timeStr, T_24)

\* variant: the liveness flag is tested before the status
computeTempTripLiveFirst(fields, nowEpoch, tzOffsetMinutes) ==
    LET status == fields[TRIP_STATUS]
        dateStr == fields[TRIP_DT]
        timeStr == TripTimeStr(fields)
        allow24 == TripAllow24(timeStr)
    IN  WithValue(toEpochSecondsLocal(dateStr, timeStr, tzOffsetMinutes, allow24), LAMBDA targetEpoch :
        IF isGoneIn(fields[TRIP_GONEIN]) THEN [temp |-> "LIVE", targetEpoch |-> NullV]
        ELSE IF isCompleted(status) THEN [temp |-> "DONE", targetEpoch |-> NullV]
        ELSE IF IsNullish(targetEpoch) THEN [temp |-> "COLD", targetEpoch |-> NullV]
        ELSE LET till == targetEpoch.v - nowEpoch
             IN  IF till <= 0 THEN [temp |-> "HOT", targetEpoch |-> targetEpoch]
                 ELSE IF till <= 1800 THEN [temp |-> "HOT", targetEpoch |-> targetEpoch]
                 ELSE IF till <= 3600 THEN [temp |-> "WARM", targetEpoch |-> targetEpoch]
                 ELSE [temp |-> "COLD", targetEpoch |-> targetEpoch])

\* variant: no test for an unresolved target; null - nowEpoch is negative
computeTempTripNoNullTest(fields, nowEpoch, tzOffsetMinutes) ==
    LET status == fields[TRIP_STATUS]
        dateStr == fields[TRIP_DT]
        timeStr == TripTimeStr(fields)
        allow24 == TripAllow24(timeStr)
    IN  WithValue(toEpochSecondsLocal(dateStr, timeStr, tzOffsetMinutes, allow24), LAMBDA targetEpoch :
        IF isCompleted(status) THEN [temp |-> "DONE", targetEpoch |-> NullV]
        ELSE IF isGoneIn(fields[TRIP_GONEIN]) THEN [temp |-> "LIVE", targetEpoch |-> NullV]
        ELSE LET till == (IF IsNullish(targetEpoch) THEN 0 ELSE targetEpoch.v) - nowEpoch
             IN  IF till <= 0 THEN [temp |-> "HOT", targetEpoch |-> targetEpoch]
                 ELSE IF till <= 1800 THEN [temp |-> "HOT", targetEpoch |-> targetEpoch]
                 ELSE IF till <= 3600 THEN [temp |-> "WARM", targetEpoch |-> targetEpoch]
                 ELSE [temp |-> "COLD", targetEpoch |-> targetEpoch])

computeTempTrip(fields, nowEpoch, tzOffsetMinutes) ==
    LET status == fields[TRIP_STATUS]
        dateStr == fields[TRIP_DT]
        timeStr == TripTimeStr(fields)
        allow24 == TripAllow24(timeStr)
    IN  WithValue(toEpochSecondsLocal(dateStr, timeStr, tzOffsetMinutes, allow24), LAMBDA targetEpoch :
        IF isCompleted(status) THEN [temp |-> "DONE", targetEpoch |-> NullV]
        ELSE IF isGoneIn(fields[TRIP_GONEIN]) THEN [temp |-> "LIVE", targetEpoch |-> NullV]
        ELSE IF IsNullish(targetEpoch) THEN [temp |-> "COLD", targetEpoch |-> NullV]
        ELSE LET till == targetEpoch.v - nowEpoch
             IN  IF till <= 0 THEN [temp |-> "HOT", targetEpoch |-> targetEpoch]
                 ELSE IF till <= 1800 THEN [temp |-> "HOT", targetEpoch |-> targetEpoch]
                 ELSE IF till <= 3600 THEN [temp |-> "WARM", targetEpoch |-> targetEpoch]
                 ELSE [temp |-> "COLD", targetEpoch |-> targetEpoch])

----------------------------------------------------------------------------
(* Due-time update builder *)

\* variant: the bucket mirror is emitted only together with temp
buildUpdateMirrorWithTemp(recordId, existingFields, nowEpoch, temp, mode) ==
    LET bucket == temp
        interval == intervalSecondsFor(mode, temp)
        nextDue == IF IsNullish(interval) THEN NullV ELSE NumV(nowEpoch + interval.v)
        keys == {FIELD_EPOCH}
                \cup (IF existingFields[FIELD_TEMP] # temp THEN {FIELD_TEMP, FIELD_BUCKET} ELSE {})
                \cup (IF existingFields[FIELD_NEXT_DUE] # nextDue THEN {FIELD_NEXT_DUE} ELSE {})
        patch == [k \in keys |->
                    IF k = FIELD_EPOCH THEN NumV(nowEpoch)
                    ELSE IF k = FIELD_TEMP THEN temp
                    ELSE IF k = FIELD_BUCKET THEN bucket
                    ELSE nextDue]
    IN  [id |-> recordId, fields |-> patch]

\* variant: the stamp is written only along with another field
buildUpdateStampWithChange(recordId, existingFields, nowEpoch, temp, mode) ==
    LET bucket == temp
        interval == intervalSecondsFor(mode, temp)
        nextDue == IF IsNullish(interval) THEN NullV ELSE NumV(nowEpoch + interval.v)
        changed == (IF existingFields[FIELD_TEMP] # temp THEN {FIELD_TEMP} ELSE {})
                   \cup (IF existingFields[FIELD_BUCKET] # bucket THEN {FIELD_BUCKET} ELSE {})
                   \cup (IF existingFields[FIELD_NEXT_DUE] # nextDue THEN {FIELD_NEXT_DUE} ELSE {})
        keys == changed \cup (IF changed # {} THEN {FIELD_EPOCH} ELSE {})
        patch == [k \in keys |->
                    IF k = FIELD_EPOCH THEN NumV(nowEpoch)
                    ELSE IF k = FIELD_TEMP THEN temp
                    ELSE IF k = FIELD_BUCKET THEN bucket
                    ELSE nextDue]
    IN  [id |-> recordId, fields |-> patch]

\* variant: a null next-due is written on every pass
buildUpdateAlwaysClears(recordId, existingFields, nowEpoch, temp, mode) ==
    LET bucket == temp
        interval == intervalSecondsFor(mode, temp)
        nextDue == IF IsNullish(interval) THEN NullV ELSE NumV(nowEpoch + interval.v)
        keys == {FIELD_EPOCH}
                \cup (IF existingFields[FIELD_TEMP] # temp THEN {FIELD_TEMP} ELSE {})
                \cup (IF existingFields[FIELD_BUCKET] # bucket THEN {FIELD_BUCKET} ELSE {})
                \cup (IF IsNullish(nextDue) \/ existingFields[FIELD_NEXT_DUE] # nextDue
                      THEN {FIELD_NEXT_DUE} ELSE {})
        patch == [k \in keys |->
                    IF k = FIELD_EPOCH THEN NumV(nowEpoch)
                    ELSE IF k = FIELD_TEMP THEN temp
                    ELSE IF k = FIELD_BUCKET THEN bucket
                    ELSE nextDue]
    IN  [id |-> recordId, fields |-> patch]

\* variant: a stored next-due that is still ahead of now is left as it is
buildUpdateKeepsFutureDue(recordId, existingFields, nowEpoch, temp, mode) ==
    LET bucket == temp
        interval == intervalSecondsFor(mode, temp)
        nextDue == IF IsNullish(interval) THEN NullV ELSE NumV(nowEpoch + interval.v)
        ahead == /\ existingFields[FIELD_NEXT_DUE].t = "num"
                 /\ existingFields[FIELD_NEXT_DUE].v > nowEpoch
        keys == {FIELD_EPOCH}
                \cup (IF existingFields[FIELD_TEMP] # temp THEN {FIELD_TEMP} ELSE {})
                \cup (IF existingFields[FIELD_BUCKET] # bucket THEN {FIELD_BUCKET} ELSE {})
                \cup (IF ~ahead /\ existingFields[FIELD_NEXT_DUE] # nextDue
                      THEN {FIELD_NEXT_DUE} ELSE {})
        patch == [k \in keys |->
                    IF k = FIELD_EPOCH THEN NumV(nowEpoch)
                    ELSE IF k = FIELD_TEMP THEN temp
                    ELSE IF k = FIELD_BUCKET THEN bucket
                    ELSE nextDue]
    IN  [id |-> recordId, fields |-> patch]

\* variant: next_due_epoch is rewritten only when the bucket changes
buildUpdateDueWithTemp(recordId, existingFields, nowEpoch, temp, mode) ==
    LET bucket == temp
        interval == intervalSecondsFor(mode, temp)
        nextDue == IF IsNullish(interval) THEN NullV ELSE NumV(nowEpoch + interval.v)
        keys == {FIELD_EPOCH}
                \cup (IF existingFields[FIELD_TEMP] # temp THEN {FIELD_TEMP, FIELD_NEXT_DUE} ELSE {})
                \cup (IF existingFields[FIELD_BUCKET] # bucket THEN {FIELD_BUCKET} ELSE {})
        patch == [k \in keys |->
                    IF k = FIELD_EPOCH THEN NumV(nowEpoch)
                    ELSE IF k = FIELD_TEMP THEN temp
                    ELSE IF k = FIELD_BUCKET THEN bucket
                    ELSE nextDue]
    IN  [id |-> recordId, fields |-> patch]

\* the patch is a function from the emitted field names to their values
buildUpdate(recordId, existingFields, nowEpoch, temp, mode) ==
    LET bucket == temp
        interval == intervalSecondsFor(mode, temp)
        nextDue == IF IsNullish(interval) THEN NullV ELSE NumV(nowEpoch + interval.v)
        keys == {FIELD_EPOCH}
                \cup (IF existingFields[FIELD_TEMP] # temp THEN {FIELD_TEMP} ELSE {})
                \cup (IF existingFields[FIELD_BUCKET] # bucket THEN {FIELD_BUCKET} ELSE {})
                \cup (IF existingFields[FIELD_NEXT_DUE] # nextDue THEN {FIELD_NEXT_DUE} ELSE {})
        patch == [k \in keys |->
                    IF k = FIELD_EPOCH THEN NumV(nowEpoch)
                    ELSE IF k = FIELD_TEMP THEN temp
                    ELSE IF k = FIELD_BUCKET THEN bucket
                    ELSE nextDue]
    IN  [id |-> recordId, fields |-> patch]

\* the store's PATCH of one record: the named fields are overwritten, the others kept
ApplyPatch(fields, patch) ==
    [k \in DOMAIN fields |-> IF k \in DOMAIN patch THEN patch[k] ELSE fields[k]]

----------------------------------------------------------------------------
(* Input texts *)

D_iso == <<"2", "0", "2", "4", "-", "0", "3", "-", "1", "0">>
D_us2 == <<"0", "3", "/", "1", "0", "/", "2", "4">>
D_us4 == <<" ", "3", "/", "1", "0", "/", "2", "0", "2", "4">>
D_words == <<"M", "a", "r", " ", "1", "0">>
D_dots == <<"2", "0", "2", "4", ".", "0", "3", ".", "1", "0">>

Tm_1400 == <<"1", "4", ":", "0", "0">>
Tm_2pm == <<"2", ":", "0", "0", " ", "P", "M">>
Tm_1430s == <<"1", "4", ":", "3", "0", ":", "0", "0">>
Tm_2430 == <<"2", "4", ":", "3", "0">>
Tm_noon == <<"n", "o", "o", "n">>
Tm_blank == <<" ">>
Tm_midnightPad == <<" ", "0", "0", ":", "0", "0", ":", "0", "0">>

St_Completed == <<"C", "o", "m", "p", "l", "e", "t", "e", "d">>
St_completedPad == <<" ", "c", "o", "m", "p", "l", "e", "t", "e", "d", " ">>
St_COMPLETED == <<"C", "O", "M", "P", "L", "E", "T", "E", "D">>
St_Underway == <<"U", "n", "d", "e", "r", "w", "a", "y">>
St_underwayPad == <<"u", "n", "d", "e", "r", "w", "a", "y", " ">>
St_Scheduled == <<"S", "c", "h", "e", "d", "u", "l", "e", "d">>

BoolV(b) == [t |-> "bool", v |-> IF b THEN 1 ELSE 0]

\* 2024-03-10T14:00:00Z, the target of D_iso / Tm_1400 at offset 0
Target0 == DateUTCSeconds(2024, 2, 10, 14, 0, 0)

Modes == {"DAY", "NIGHT", "HOLDOVER"}
Buckets == {"DONE", "LIVE", "HOT", "WARM", "COLD"}

\* stored output fields of a record before a pass
OutBlank ==
    [epoch |-> UndefV, temp |-> "", bucket |-> "", next_due_epoch |-> UndefV]
OutSplit ==
    [epoch |-> NumV(Target0 - 9000), temp |-> "HOT", bucket |-> "WARM",
     next_due_epoch |-> NumV(Target0 - 8820)]
OutCold ==
    [epoch |-> NumV(Target0 - 9000), temp |-> "COLD", bucket |-> "COLD",
     next_due_epoch |-> NumV(Target0 - 3601 + 1200)]
OutDone ==
    [epoch |-> NumV(Target0 - 9000), temp |-> "DONE", bucket |-> "DONE",
     next_due_epoch |-> NullV]

\* r @@ o for records: the fields of both
Join(r, o) ==
    [k \in DOMAIN r \cup DOMAIN o |-> IF k \in DOMAIN r THEN r[k] ELSE o[k]]

SchedRecord(status, date, latest, base, out) ==
    Join([latestStatus |-> status, show_date |-> date,
          latest_estimated_start_time |-> latest, estimated_start_time |-> base], out)

TripRecord(status, gonein, date, latest, go, start, out) ==
    Join([latestStatus |-> status, lastGonein |-> gonein, dt |-> date,
          latest_estimated_go_time |-> latest, estimated_go_time |-> go,
          estimated_start_time |-> start], out)

----------------------------------------------------------------------------
(* The clock source *)

\* A clock response body, by what JSON.parse and the payload reader make of it:
\*   json   "object" (a JSON object), "number" (a bare JSON number, which
\*          JSON.parse accepts), "invalid" (JSON.parse throws)
\*   digits the trimmed text matches /^\d+$/
\*   n      floor(Number(text) / 1000) when digits
\*   iso    Date.parse(time_zone_date_time.date_obj) in seconds, NullV when the
\*          member is missing, not a string or not a date
\*   off    Number(time_zone_date_time.time_zone_offset), NullV when not finite
RingBody(nowS, off) ==
    [json |-> "object", digits |-> FALSE, n |-> 0, iso |-> NumV(nowS), off |-> NumV(off)]
EmptyObjectBody ==
    [json |-> "object", digits |-> FALSE, n |-> 0, iso |-> NullV, off |-> NullV]
RawNumberBody(nowS) ==
    [json |-> "number", digits |-> TRUE, n |-> nowS, iso |-> NullV, off |-> NullV]
ZeroPaddedBody(nowS) ==
    [json |-> "invalid", digits |-> TRUE, n |-> nowS, iso |-> NullV, off |-> NullV]
GarbageBody ==
    [json |-> "invalid", digits |-> FALSE, n |-> 0, iso |-> NullV, off |-> NullV]

pickNowMsAndOffsetFromRingPayload(j, dateNow) ==
    LET iso == IF j.json = "object" THEN j.iso ELSE NullV
        offset == IF j.json = "object" THEN j.off ELSE NullV
    IN  [nowMs |-> IF iso.t = "num" THEN iso.v ELSE dateNow,
         tzOffsetMinutes |-> IF offset.t = "num" THEN offset.v ELSE 0]

\* the snapshot getServerClock returns for a response body; dateNow is Date.now()
getServerClock(body, dateNow) ==
    IF body.json # "invalid"
    THEN LET c == pickNowMsAndOffsetFromRingPayload(body, dateNow)
         IN  [nowEpoch |-> c.nowMs, tzOffsetMinutes |-> c.tzOffsetMinutes]
    ELSE IF body.digits THEN [nowEpoch |-> body.n, tzOffsetMinutes |-> 0]
    ELSE [nowEpoch |-> dateNow, tzOffsetMinutes |-> 0]

----------------------------------------------------------------------------
(* The pure functions applied to inputs drawn from bounded sets.  probe    *)
(* holds one input and, stage by stage, what the functions make of it.     *)

NoProbe == [kind |-> "none", stage |-> "none"]

FnStatuses == {<<>>, St_Completed, St_completedPad, St_COMPLETED, St_Underway,
               St_underwayPad, St_Scheduled}
FnDates == {<<>>, D_iso, D_us2, D_us4, D_words, D_dots}
FnNowOffsets == {-3601, -3600, -1801, -1800, -1, 0, 1, 16200}
FnTzOffsets == {0, -300}
FnOuts == {OutBlank, OutSplit, OutCold, OutDone}

FnSchedFields ==
    {SchedRecord(st, d, tl, tb, OutBlank) :
        st \in FnStatuses, d \in FnDates,
        tl \in {<<>>, Tm_1400, Tm_noon}, tb \in {<<>>, Tm_2pm, Tm_blank}}

FnTripFields ==
    {TripRecord(st, g, d, tl, tg, ts, OutBlank) :
        st \in {<<>>, St_COMPLETED, St_Underway},
        g \in {UndefV, BoolV(TRUE), BoolV(FALSE), NumV(1), NumV(0)},
        d \in {D_iso, D_words},
        tl \in {<<>>, Tm_1400},
        tg \in {<<>>, T_midnight, Tm_midnightPad, Tm_2430, Tm_1430s},
        ts \in {<<>>, Tm_2pm, Tm_noon}}

NoUpdate == [id |-> "", fields |-> <<>>]

\* rec: the record as the store holds it; existing: the record the first
\* update was built from; update, again: the updates of two runs on existing;
\* update2: the update of a further run on the patched record
FnProbe(kind, rec, now, tz) ==
    [kind |-> kind, stage |-> "in", rec |-> rec, nowEpoch |-> now, tzOffsetMinutes |-> tz,
     mode |-> "", temp |-> "", targetEpoch |-> NullV, interval |-> NullV,
     timeStr |-> <<>>, allow24 |-> FALSE,
     body |-> <<>>, dateNow |-> 0, clock |-> [nowEpoch |-> 0, tzOffsetMinutes |-> 0],
     existing |-> <<>>, update |-> NoUpdate, again |-> NoUpdate, update2 |-> NoUpdate]

\* lines 357-361 / 367-371: one record of a pass, classified and built
MapRecord(kind, id, fields, nowEpoch, tzOffsetMinutes, mode) ==
    WithValue(IF kind = "schedule"
              THEN computeTempSchedule(fields, nowEpoch, tzOffsetMinutes)
              ELSE computeTempTrip(fields, nowEpoch, tzOffsetMinutes),
              LAMBDA c : buildUpdate(id, fields, nowEpoch, c.temp, mode))

FnInit ==
    /\ store = <<>>
    /\ runs = <<>>
    /\ log = <<>>
    /\ clockSeq = 0
    /\ \/ \E rec \in FnSchedFields, d \in FnNowOffsets, tz \in FnTzOffsets :
            probe = FnProbe("schedule", rec, Target0 + d, tz)
       \/ \E rec \in FnTripFields, d \in FnNowOffsets, tz \in FnTzOffsets :
            probe = FnProbe("trip", rec, Target0 + d, tz)
       \/ probe = FnProbe("cadence", <<>>, 0, 0)
       \/ probe = FnProbe("clock", <<>>, 0, 0)

\* computeTempSchedule on the input
FnClassifySchedule ==
    /\ probe.kind = "schedule" /\ probe.stage = "in"
    /\ LET c == computeTempSchedule(probe.rec, probe.nowEpoch, probe.tzOffsetMinutes)
       IN  probe' = [probe EXCEPT !.stage = "classified", !.temp = c.temp,
                                  !.targetEpoch = c.targetEpoch]
    /\ UNCHANGED <<store, runs, log, clockSeq>>

\* computeTempTrip on the input
FnClassifyTrip ==
    /\ probe.kind = "trip" /\ probe.stage = "in"
    /\ LET c == computeTempTrip(probe.rec, probe.nowEpoch, probe.tzOffsetMinutes)
       IN  probe' = [probe EXCEPT !.stage = "classified", !.temp = c.temp,
                                  !.targetEpoch = c.targetEpoch,
                                  !.timeStr = TripTimeStr(probe.rec),
                                  !.allow24 = TripAllow24(TripTimeStr(probe.rec))]
    /\ UNCHANGED <<store, runs, log, clockSeq>>

\* buildUpdate on the classified record, for some mode and some stored output fields
FnBuildUpdate ==
    /\ probe.stage = "classified"
    /\ \E mode \in Modes, out \in FnOuts :
        LET existing == ApplyPatch(probe.rec, out)
        IN  probe' = [probe EXCEPT
                        !.stage = "built", !.mode = mode, !.rec = existing,
                        !.existing = existing,
                        !.update = buildUpdate("rec1", existing, probe.nowEpoch, probe.temp, mode)]
    /\ UNCHANGED <<store, runs, log, clockSeq>>

\* the store applies the update to the record
FnApplyUpdate ==
    /\ probe.stage = "built"
    /\ probe' = [probe EXCEPT !.stage = "applied",
                              !.rec = ApplyPatch(probe.rec, probe.update.fields)]
    /\ UNCHANGED <<store, runs, log, clockSeq>>

\* the same pass once more on the record as it was (again), and a further
\* pass with the same clock and mode on the record as the store now holds it
FnRerun ==
    /\ probe.stage = "applied"
    /\ probe' = [probe EXCEPT
                    !.stage = "rerun",
                    !.again = MapRecord(probe.kind, "rec1", probe.existing, probe.nowEpoch,
                                        probe.tzOffsetMinutes, probe.mode),
                    !.update2 = MapRecord(probe.kind, "rec1", probe.rec, probe.nowEpoch,
                                          probe.tzOffsetMinutes, probe.mode)]
    /\ UNCHANGED <<store, runs, log, clockSeq>>

\* intervalSecondsFor on a mode and a bucket; "TEPID" stands for a bucket
\* outside the known set
FnIntervalSecondsFor ==
    /\ probe.kind = "cadence" /\ probe.stage = "in"
    /\ \E mode \in Modes, temp \in Buckets \cup {"TEPID"} :
        probe' = [probe EXCEPT !.stage = "cadence", !.mode = mode, !.temp = temp,
                               !.interval = intervalSecondsFor(mode, temp)]
    /\ UNCHANGED <<store, runs, log, clockSeq>>

\* a JSON payload with only one of the two members usable
IsoOnlyBody(nowS) ==
    [json |-> "object", digits |-> FALSE, n |-> 0, iso |-> NumV(nowS), off |-> NullV]
OffsetOnlyBody(off) ==
    [json |-> "object", digits |-> FALSE, n |-> 0, iso |-> NullV, off |-> NumV(off)]

FnClockBodies ==
    {RingBody(Target0 - 1800, -300), RingBody(Target0 + 1, 0),
     RawNumberBody(Target0 - 3600), ZeroPaddedBody(Target0 - 3600),
     EmptyObjectBody, GarbageBody, IsoOnlyBody(Target0 - 1800), OffsetOnlyBody(-300)}

FnLocalNows == {Target0 - 1801, Target0 + 5}

\* getServerClock on a response body, Date.now() being dateNow
FnGetServerClock ==
    /\ probe.kind = "clock" /\ probe.stage = "in"
    /\ \E body \in FnClockBodies, dateNow \in FnLocalNows :
        probe' = [probe EXCEPT !.stage = "clock", !.body = body, !.dateNow = dateNow,
                               !.clock = getServerClock(body, dateNow)]
    /\ UNCHANGED <<store, runs, log, clockSeq>>

FnNext ==
    \/ FnGetServerClock
    \/ FnClassifySchedule
    \/ FnClassifyTrip
    \/ FnBuildUpdate
    \/ FnApplyUpdate
    \/ FnIntervalSecondsFor

SpecFn == FnInit /\ [][FnNext]_vars

\* Repeated passes over one record: the records of every bucket, each with
\* every stored output, taken through a pass and then through the pass again.
PassSchedFields ==
    {SchedRecord(st, d, tl, tb, OutBlank) :
        st \in {<<>>, St_Completed, St_Underway}, d \in {D_iso, D_words},
        tl \in {<<>>, Tm_1400}, tb \in {<<>>, Tm_2pm}}

PassTripFields ==
    {TripRecord(st, g, D_iso, tl, tg, ts, OutBlank) :
        st \in {<<>>, St_COMPLETED}, g \in {UndefV, NumV(1)},
        tl \in {<<>>, Tm_1400}, tg \in {<<>>, Tm_2430}, ts \in {<<>>, Tm_2pm}}

PassNowOffsets == {-3601, -3600, -1800, 1}

PassInit ==
    /\ store = <<>>
    /\ runs = <<>>
    /\ log = <<>>
    /\ clockSeq = 0
    /\ \/ \E rec \in PassSchedFields, d \in PassNowOffsets, tz \in FnTzOffsets :
            probe = FnProbe("schedule", rec, Target0 + d, tz)
       \/ \E rec \in PassTripFields, d \in PassNowOffsets, tz \in FnTzOffsets :
            probe = FnProbe("trip", rec, Target0 + d, tz)

PassNext ==
    \/ FnClassifySchedule
    \/ FnClassifyTrip
    \/ FnBuildUpdate
    \/ FnApplyUpdate
    \/ FnRerun

SpecPass == PassInit /\ [][PassNext]_vars

----------------------------------------------------------------------------
(* The record store *)

PageSize == 100
ChunkSize == 10

\* one page of airtableList's request: the records after `offset` and the
\* offset of the next page (0: none, the falsy value that ends the loop)
ListPage(tbl, offset) ==
    [records |-> SubSeq(tbl, offset + 1, Min({offset + PageSize, Len(tbl)})),
     offset |-> IF offset + PageSize < Len(tbl) THEN offset + PageSize ELSE 0]

\* the store's PATCH of a chunk of updates
PatchTable(tbl, chunk) ==
    [k \in 1..Len(tbl) |->
        IF \E j \in 1..Len(chunk) : chunk[j].id = tbl[k].id
        THEN LET u == chunk[CHOOSE j \in 1..Len(chunk) : chunk[j].id = tbl[k].id]
             IN  [tbl[k] EXCEPT !.fields = ApplyPatch(@, u.fields)]
        ELSE tbl[k]]

\* Outcome of a list or patch request: a 2xx response, a non-2xx response
\* (res.ok false), or fetch rejecting (network error, abort on timeout).
Outcomes == {"ok", "http_error", "network_error"}

----------------------------------------------------------------------------
(* A run of the job: main (lines 377-399) and tagOnce (lines 355-375)      *)

NoClock == [nowEpoch |-> 0, tzOffsetMinutes |-> 0, id |-> 0]

InitRun ==
    [pc |-> "getServerClock",
     clk |-> NoClock,            \* nowEpoch, tzOffsetMinutes of main
     clk2 |-> NoClock,           \* clk2 of main
     mode |-> "",
     ret |-> "",                 \* the call of tagOnce being executed: "first", "second"
     tagClk |-> NoClock,         \* nowEpoch, tzOffsetMinutes of tagOnce
     out |-> <<>>, offset |-> 0, \* airtableList
     sched |-> <<>>, schedUpdates |-> <<>>,
     trips |-> <<>>, tripUpdates |-> <<>>,
     i |-> 0,                    \* airtableBatchUpdate
     slept |-> FALSE,
     passesStarted |-> 0, passesDone |-> 0]

\* a log entry: the request, how it ended ("ok", "http_error", "network_error")
\* and the number of passes the run had started when it was issued
Request(p, req, table, status) ==
    [run |-> p, req |-> req, table |-> table, status |-> status,
     pass |-> runs[p].passesStarted]

\* variant: the rejection is swallowed and the step is taken again
OnFailureRetry(r) == r

\* a rejected await in main: nothing catches it, the process ends with a failure
OnFailure(r) == [r EXCEPT !.pc = "failed"]

\* variant: the second pass is not restricted to DAY
SecondPassDueAlways(mode) == TRUE

\* line 394: is the second pass due
SecondPassDue(mode) == mode = "DAY"

\* variant: the second pass is called with the snapshot of line 382
SecondPassClockReused(r) == r.clk

\* line 397: the snapshot the second pass is called with
SecondPassClock(r) == r.clk2

\* the call tagOnce(nowEpoch, tzOffsetMinutes, mode)
CallTagOnce(r, clk, ret) ==
    [r EXCEPT !.pc = "listSchedule", !.ret = ret, !.tagClk = clk,
              !.out = <<>>, !.offset = 0,
              !.sched = <<>>, !.schedUpdates = <<>>, !.trips = <<>>, !.tripUpdates = <<>>,
              !.passesStarted = @ + 1]

\* tagOnce returns to main: lines 393-398
ReturnFromTagOnce(r) ==
    LET r1 == [r EXCEPT !.passesDone = @ + 1]
    IN  IF r.ret = "first" /\ SecondPassDue(r.mode)
        THEN [r1 EXCEPT !.pc = "sleep"]
        ELSE [r1 EXCEPT !.pc = "done"]

\* variant: the schedule updates are not submitted before the trips are listed
AfterScheduleBuiltDeferred(r) ==
    [r EXCEPT !.pc = "listTrips", !.out = <<>>, !.offset = 0]

\* where tagOnce goes after the schedule updates are built (airtableBatchUpdate
\* returns at once on an empty list)
AfterScheduleBuilt(r) ==
    IF r.schedUpdates = <<>>
    THEN [r EXCEPT !.pc = "listTrips", !.out = <<>>, !.offset = 0]
    ELSE [r EXCEPT !.pc = "patchSchedule", !.i = 0]

AfterTripsBuilt(r) ==
    IF r.tripUpdates = <<>>
    THEN ReturnFromTagOnce(r)
    ELSE [r EXCEPT !.pc = "patchTrips", !.i = 0]

ScheduleUpdates(recs, clk, mode) ==
    [k \in 1..Len(recs) |->
        WithValue(computeTempSchedule(recs[k].fields, clk.nowEpoch, clk.tzOffsetMinutes),
                  LAMBDA c : buildUpdate(recs[k].id, recs[k].fields, clk.nowEpoch, c.temp, mode))]

TripUpdates(recs, clk, mode) ==
    [k \in 1..Len(recs) |->
        WithValue(computeTempTrip(recs[k].fields, clk.nowEpoch, clk.tzOffsetMinutes),
                  LAMBDA c : buildUpdate(recs[k].id, recs[k].fields, clk.nowEpoch, c.temp, mode))]

\* getCurrentMode's reading of the listed shows: shows[0]?.fields?.[FIELD_MODE]
TopMode(shows) == IF shows = <<>> THEN <<>> ELSE shows[1].fields[FIELD_MODE]

\* the snapshot main receives from getServerClock, tagged with the number of the response
Snapshot(body, dateNow) ==
    LET c == getServerClock(body, dateNow)
    IN  [nowEpoch |-> c.nowEpoch, tzOffsetMinutes |-> c.tzOffsetMinutes, id |-> clockSeq + 1]

\* the clock request of getServerClock; next is the run once main has the snapshot
ClockRequest(p, resp, next) ==
    /\ log' = Append(log, Request(p, "clock", "",
                        IF resp.net # "ok" THEN "network_error"
                        ELSE IF resp.status \in 200..299 THEN "ok" ELSE "http_error"))
    /\ IF resp.net # "ok"
       THEN /\ runs' = [runs EXCEPT ![p] = OnFailure(@)]
            /\ UNCHANGED clockSeq
       ELSE /\ clockSeq' = clockSeq + 1
            /\ runs' = [runs EXCEPT ![p] = next]
    /\ UNCHANGED <<store, probe>>

\* one turn of airtableList's loop on a 2xx response: the page is appended to
\* out, offset is the next page's (0 ends the loop)
airtableList(r, tbl) ==
    LET page == ListPage(tbl, r.offset)
    IN  [r EXCEPT !.out = @ \o page.records, !.offset = page.offset]

\* one page request of airtableList on `table` with outcome o; next is the run
\* after a 2xx response
ListRequest(p, table, o, next) ==
    /\ log' = Append(log, Request(p, "list", table, o))
    /\ runs' = [runs EXCEPT ![p] = IF o # "ok" THEN OnFailure(@) ELSE next]
    /\ UNCHANGED <<store, clockSeq, probe>>

\* variant: the slice ends at ChunkSize instead of i + ChunkSize
ChunkAtFixedEnd(updates, i) == SubSeq(updates, i + 1, Min({ChunkSize, Len(updates)}))

\* line 242: updates.slice(i, i + 10), i counted from 0
ChunkAt(updates, i) == SubSeq(updates, i + 1, Min({i + ChunkSize, Len(updates)}))

\* one PATCH request of airtableBatchUpdate with outcome o: the chunk at i;
\* done is the run once the loop is over.  The log entry carries the records
\* of the request body.
PatchRequest(p, table, updates, o, done) ==
    LET i == runs[p].i
        chunk == ChunkAt(updates, i)
    IN  /\ log' = Append(log, [run |-> p, req |-> "patch", table |-> table, status |-> o,
                               pass |-> runs[p].passesStarted, records |-> chunk])
        /\ IF o # "ok"
           THEN /\ runs' = [runs EXCEPT ![p] = OnFailure(@)]
                /\ UNCHANGED store
           ELSE /\ store' = [store EXCEPT ![table] = PatchTable(@, chunk)]
                /\ runs' = [runs EXCEPT ![p] =
                                IF i + ChunkSize < Len(updates)
                                THEN [@ EXCEPT !.i = i + ChunkSize]
                                ELSE done]
        /\ UNCHANGED <<clockSeq, probe>>

\* the clock source's answers and the values of the local process clock
SpecClockResponses ==
    {[net |-> "network_error", status |-> 0, body |-> GarbageBody],
     [net |-> "ok", status |-> 200, body |-> RingBody(Target0 - 3601, 0)],
     [net |-> "ok", status |-> 200, body |-> RingBody(Target0 - 1800, 0)],
     [net |-> "ok", status |-> 200, body |-> RingBody(Target0 + 16200, -300)],
     [net |-> "ok", status |-> 200, body |-> RawNumberBody(Target0 - 3600)],
     [net |-> "ok", status |-> 500, body |-> GarbageBody]}

SpecLocalNows == {Target0 - 1801}

\* line 382
FirstClock(r, snap) == [r EXCEPT !.pc = "getCurrentMode", !.clk = snap, !.out = <<>>, !.offset = 0]

MainGetServerClock(p) ==
    /\ runs[p].pc = "getServerClock"
    /\ \E resp \in SpecClockResponses, dateNow \in SpecLocalNows :
        ClockRequest(p, resp, FirstClock(runs[p], Snapshot(resp.body, dateNow)))

\* lines 383-391
ModeResolved(r, shows) ==
    LET mode == normalizeMode(TopMode(shows))
    IN  IF mode = "HOLDOVER"
        THEN [r EXCEPT !.mode = mode, !.pc = "exit0"]
        ELSE CallTagOnce([r EXCEPT !.mode = mode], r.clk, "first")

GetCurrentMode(p) ==
    /\ runs[p].pc = "getCurrentMode"
    /\ \E o \in Outcomes :
        LET l == airtableList(runs[p], store[TABLE_SHOWS])
        IN  ListRequest(p, TABLE_SHOWS, o, IF l.offset # 0 THEN l ELSE ModeResolved(l, l.out))

\* lines 357-362
ScheduleListed(r, recs) ==
    WithValue([r EXCEPT !.sched = recs,
                        !.schedUpdates = ScheduleUpdates(recs, r.tagClk, r.mode)],
              LAMBDA r1 : AfterScheduleBuilt(r1))

TagOnceListSchedule(p) ==
    /\ runs[p].pc = "listSchedule"
    /\ \E o \in Outcomes :
        LET l == airtableList(runs[p], store[TABLE_SCHEDULE])
        IN  ListRequest(p, TABLE_SCHEDULE, o, IF l.offset # 0 THEN l ELSE ScheduleListed(l, l.out))

\* line 363
SchedulePatched(r) == [r EXCEPT !.pc = "listTrips", !.out = <<>>, !.offset = 0]

TagOncePatchSchedule(p) ==
    /\ runs[p].pc = "patchSchedule"
    /\ \E o \in Outcomes :
        PatchRequest(p, TABLE_SCHEDULE, runs[p].schedUpdates, o, SchedulePatched(runs[p]))

\* lines 366-371
TripsListed(r, recs) ==
    WithValue([r EXCEPT !.trips = recs,
                        !.tripUpdates = TripUpdates(recs, r.tagClk, r.mode)],
              LAMBDA r1 : AfterTripsBuilt(r1))

TagOnceListTrips(p) ==
    /\ runs[p].pc = "listTrips"
    /\ \E o \in Outcomes :
        LET l == airtableList(runs[p], store[TABLE_TRIPS])
        IN  ListRequest(p, TABLE_TRIPS, o, IF l.offset # 0 THEN l ELSE TripsListed(l, l.out))

\* lines 372-374
TagOncePatchTrips(p) ==
    /\ runs[p].pc = "patchTrips"
    /\ \E o \in Outcomes :
        PatchRequest(p, TABLE_TRIPS, runs[p].tripUpdates, o, ReturnFromTagOnce(runs[p]))

\* line 395
Sleep(p) ==
    /\ runs[p].pc = "sleep"
    /\ runs' = [runs EXCEPT ![p] = [@ EXCEPT !.pc = "getServerClock2", !.slept = TRUE]]
    /\ UNCHANGED <<store, log, clockSeq, probe>>

\* lines 396-397
SecondClock(r, snap) ==
    LET r1 == [r EXCEPT !.clk2 = snap]
    IN  CallTagOnce(r1, SecondPassClock(r1), "second")

MainSecondGetServerClock(p) ==
    /\ runs[p].pc = "getServerClock2"
    /\ \E resp \in SpecClockResponses, dateNow \in SpecLocalNows :
        ClockRequest(p, resp, SecondClock(runs[p], Snapshot(resp.body, dateNow)))

----------------------------------------------------------------------------
(* The store before a run *)

T_dayPad == <<" ", "d", "a", "y", " ">>
T_dusk == <<"d", "u", "s", "k">>

ShowRecord(k, mode) == [id |-> <<"show", k>>, fields |-> [mode |-> mode]]

SpecShows ==
    {<<>>,
     <<ShowRecord(1, T_DAY)>>,
     <<ShowRecord(1, T_dayPad)>>,
     <<ShowRecord(1, T_NIGHT), ShowRecord(2, T_DAY)>>,
     <<ShowRecord(1, T_HOLDOVER)>>,
     <<ShowRecord(1, <<>>)>>,
     <<ShowRecord(1, T_dusk)>>}

SpecSchedFields ==
    {SchedRecord(St_Completed, D_iso, Tm_1400, <<>>, OutBlank),
     SchedRecord(<<>>, D_iso, Tm_1400, <<>>, OutSplit),
     SchedRecord(St_Scheduled, D_words, <<>>, Tm_2pm, OutCold),
     SchedRecord(St_Underway, D_iso, <<>>, Tm_noon, OutDone)}

SpecTripFields ==
    {TripRecord(St_completedPad, UndefV, D_iso, Tm_1400, <<>>, <<>>, OutSplit),
     TripRecord(<<>>, NumV(0), D_us2, <<>>, T_midnight, Tm_2pm, OutBlank),
     TripRecord(St_Scheduled, UndefV, D_iso, <<>>, Tm_noon, <<>>, OutCold),
     TripRecord(St_Scheduled, NumV(1), D_iso, Tm_1400, <<>>, <<>>, OutDone)}

\* the tables of at most n records with fields from F; ids follow the position
Tables(tag, F, n) ==
    {[k \in 1..Len(fs) |-> [id |-> <<tag, k>>, fields |-> fs[k]]] :
        fs \in UNION {[1..m -> F] : m \in 0..n}}

Init ==
    /\ store \in [shows : SpecShows,
                  watch_schedule : Tables("sched", SpecSchedFields, MaxSched),
                  watch_trips : Tables("trip", SpecTripFields, MaxTrips)]
    /\ runs = [p \in {1} |-> InitRun]
    /\ log = <<>>
    /\ clockSeq = 0
    /\ probe = NoProbe

Next ==
    \/ \E p \in DOMAIN runs : MainGetServerClock(p)
    \/ \E p \in DOMAIN runs : GetCurrentMode(p)
    \/ \E p \in DOMAIN runs : TagOnceListSchedule(p)
    \/ \E p \in DOMAIN runs : TagOncePatchSchedule(p)
    \/ \E p \in DOMAIN runs : TagOnceListTrips(p)
    \/ \E p \in DOMAIN runs : TagOncePatchTrips(p)
    \/ \E p \in DOMAIN runs : Sleep(p)
    \/ \E p \in DOMAIN runs : MainSecondGetServerClock(p)

Spec == Init /\ [][Next]_vars

----------------------------------------------------------------------------
(* Properties of a run (checked under Spec)                                *)

TagTables == {TABLE_SCHEDULE, TABLE_TRIPS}

Succeeded(r) == r.pc \in {"done", "exit0"}

PassesOf(mode) == IF mode = "DAY" THEN 2 ELSE IF mode = "NIGHT" THEN 1 ELSE 0

\* C1: a run that ends successfully has performed exactly two passes in DAY
\* mode, one in NIGHT mode and none in HOLDOVER mode, and no run ever starts
\* more; a HOLDOVER run ends successfully at the mode test, having sent no
\* list and no patch request to the schedule or trip table.
C1_PassCountByMode ==
    \A p \in DOMAIN runs :
        LET r == runs[p]
        IN  /\ r.mode \in Modes => r.passesStarted <= PassesOf(r.mode)
            /\ Succeeded(r) =>
                /\ r.mode \in Modes
                /\ r.passesStarted = PassesOf(r.mode)
                /\ r.passesDone = PassesOf(r.mode)
            /\ r.mode = "HOLDOVER" =>
                /\ r.pc = "exit0"
                /\ \A i \in 1..Len(log) : log[i].run = p => log[i].table \notin TagTables

C1_Witness ==
    \E p \in DOMAIN runs :
        /\ runs[p].pc = "done" /\ runs[p].mode = "DAY" /\ runs[p].passesDone = 2
        /\ \E i \in 1..Len(log) : log[i].req = "patch" /\ log[i].pass = 2

\* C2: once a run has finished, a record's stored next_due_epoch is null if
\* and only if its stored bucket is DONE or the run's mode is HOLDOVER.
C2_NextDueNullIffDoneOrHoldover ==
    \A p \in DOMAIN runs :
        Succeeded(runs[p]) =>
            \A t \in TagTables : \A k \in 1..Len(store[t]) :
                IsNullish(store[t][k].fields[FIELD_NEXT_DUE])
                    <=> (store[t][k].fields[FIELD_BUCKET] = "DONE" \/ runs[p].mode = "HOLDOVER")

\* C6: after a pass has completed, every record of the two tables (each one
\* was listed and patched by the pass) has its stored bucket equal to its
\* stored temp, and both name a bucket.
C6_BucketMirrorsTemp ==
    \A p \in DOMAIN runs :
        runs[p].passesDone >= 1 =>
            \A t \in TagTables : \A k \in 1..Len(store[t]) :
                /\ store[t][k].fields[FIELD_BUCKET] = store[t][k].fields[FIELD_TEMP]
                /\ store[t][k].fields[FIELD_TEMP] \in Buckets

\* the schedule record that starts with temp HOT and bucket WARM, classified HOT
C6_Witness ==
    \E p \in DOMAIN runs :
        /\ runs[p].passesDone >= 1
        /\ \E k \in 1..Len(store[TABLE_SCHEDULE]) :
            LET f == store[TABLE_SCHEDULE][k].fields
            IN  /\ f[SCHED_STATUS] = <<>> /\ f[SCHED_SHOW_DATE] = D_iso
                /\ f[FIELD_TEMP] = "HOT" /\ f[FIELD_BUCKET] = "HOT"

\* C7: the first pass runs with the snapshot of the first clock request; the
\* second pass runs with the snapshot of a later clock request, made after
\* the wait, and every update a pass builds is stamped with that pass's now.
C7_FreshClockPerPass ==
    \A p \in DOMAIN runs :
        LET r == runs[p]
        IN  /\ r.ret = "first" => r.tagClk = r.clk /\ r.clk.id >= 1
            /\ r.ret = "second" =>
                /\ r.tagClk = r.clk2
                /\ r.clk2.id > r.clk.id
                /\ r.slept
                /\ \E i \in 1..Len(log) :
                    /\ log[i].run = p /\ log[i].req = "clock" /\ log[i].pass = 1
                    /\ \A j \in 1..Len(log) :
                        (log[j].run = p /\ log[j].pass = 2) => i < j
            /\ r.clk2.id # 0 => r.slept
            /\ \A k \in 1..Len(r.schedUpdates) :
                r.schedUpdates[k].fields[FIELD_EPOCH] = NumV(r.tagClk.nowEpoch)
            /\ \A k \in 1..Len(r.tripUpdates) :
                r.tripUpdates[k].fields[FIELD_EPOCH] = NumV(r.tagClk.nowEpoch)

C7_Witness ==
    \E p \in DOMAIN runs :
        /\ runs[p].ret = "second" /\ runs[p].pc = "done"
        /\ runs[p].clk2.nowEpoch # runs[p].clk.nowEpoch
        /\ runs[p].tripUpdates # <<>>
        /\ runs[p].tripUpdates[1].fields[FIELD_EPOCH] = NumV(runs[p].clk2.nowEpoch)

\* the requests i < j of the log belong to the same pass of the same run
SamePass(i, j) ==
    /\ log[i].run = log[j].run
    /\ log[i].pass = log[j].pass
    /\ log[i].table \in TagTables /\ log[j].table \in TagTables

\* C8 as stated: no patch is submitted to either table before the trip
\* records of the pass have been listed.
C8_NoPatchBeforeTripsListed ==
    \A j \in 1..Len(log) :
        log[j].req = "patch" =>
            \E i \in 1..(j - 1) :
                /\ SamePass(i, j)
                /\ log[i].req = "list" /\ log[i].table = TABLE_TRIPS /\ log[i].status = "ok"

\* position of a request in the order of tagOnce
StepRank(e) ==
    IF e.table = TABLE_SCHEDULE
    THEN (IF e.req = "list" THEN 1 ELSE 2)
    ELSE (IF e.req = "list" THEN 3 ELSE 4)

\* C8 (amended): within one pass the requests follow the order list schedule,
\* patch schedule, list trips, patch trips; the pass's clock snapshot is
\* fetched before its first list; a table is patched only after it has been
\* listed in the same pass; and the schedule updates, when there are any,
\* have been submitted before the trips are listed.
C8_PassOrderPerTable ==
    /\ \A i, j \in 1..Len(log) :
        (i < j /\ SamePass(i, j)) => StepRank(log[i]) <= StepRank(log[j])
    /\ \A j \in 1..Len(log) :
        log[j].table \in TagTables =>
            \E i \in 1..(j - 1) :
                /\ log[i].run = log[j].run /\ log[i].req = "clock"
                /\ log[i].pass = log[j].pass - 1 /\ log[i].status # "network_error"
    /\ \A j \in 1..Len(log) :
        log[j].req = "patch" =>
            \E i \in 1..(j - 1) :
                /\ SamePass(i, j)
                /\ log[i].req = "list" /\ log[i].table = log[j].table /\ log[i].status = "ok"
    /\ \A p \in DOMAIN runs :
        (runs[p].pc \in {"listTrips", "patchTrips"} /\ runs[p].schedUpdates # <<>>) =>
            \E i \in 1..Len(log) :
                /\ log[i].run = p /\ log[i].pass = runs[p].passesStarted
                /\ log[i].req = "patch" /\ log[i].table = TABLE_SCHEDULE /\ log[i].status = "ok"

\* a pass that patched the schedule, then listed the trips, then patched them
C8_Witness ==
    \E i, j, k \in 1..Len(log) :
        /\ i < j /\ j < k /\ SamePass(i, j) /\ SamePass(j, k)
        /\ log[i].req = "patch" /\ log[i].table = TABLE_SCHEDULE /\ log[i].status = "ok"
        /\ log[j].req = "list" /\ log[j].table = TABLE_TRIPS /\ log[j].status = "ok"
        /\ log[k].req = "patch" /\ log[k].table = TABLE_TRIPS /\ log[k].status = "ok"

\* the run of request i has issued no later request and has ended as a failure
EndsRunAsFailure(i) ==
    /\ \A j \in (i + 1)..Len(log) : log[j].run # log[i].run
    /\ runs[log[i].run].pc = "failed"

\* C9 as stated: a clock, list or patch request that fails (non-2xx answer
\* or network error) is the last request of its run, and the run fails.
C9_AnyFailedRequestEndsRun ==
    \A i \in 1..Len(log) : log[i].status # "ok" => EndsRunAsFailure(i)

\* C9 (amended): a list or patch request that fails (non-2xx answer or
\* network error), and a clock request that fails at the network level, is
\* the last request of its run, and the run ends as a failure, not as a
\* success.  (A clock answer with a non-2xx status is read like any other.)
C9_FailedRequestEndsRun ==
    \A i \in 1..Len(log) :
        (log[i].status # "ok" /\ ~(log[i].req = "clock" /\ log[i].status = "http_error"))
            => EndsRunAsFailure(i)

\* the trips patch of the first pass of a DAY run fails after the schedule was patched
C9_Witness ==
    \E p \in DOMAIN runs :
        /\ runs[p].pc = "failed" /\ runs[p].mode = "DAY" /\ runs[p].passesDone = 0
        /\ log[Len(log)].req = "patch" /\ log[Len(log)].table = TABLE_TRIPS
        /\ log[Len(log)].status = "http_error"
        /\ \E i \in 1..Len(log) : log[i].req = "patch" /\ log[i].table = TABLE_SCHEDULE

----------------------------------------------------------------------------
(* Properties of the pure functions (checked under SpecFn)                 *)

CompletedTexts == {St_Completed, St_completedPad, St_COMPLETED}
UnderwayTexts == {St_Underway, St_underwayPad}
BadDateTexts == {<<>>, D_words, D_dots}
BadTimeTexts == {<<>>, Tm_noon, Tm_blank}

Classified == probe.kind \in {"schedule", "trip"} /\ probe.stage # "in"

ProbeCompleted == probe.rec.latestStatus \in CompletedTexts

ProbeLive ==
    IF probe.kind = "schedule"
    THEN probe.rec.latestStatus \in UnderwayTexts
    ELSE probe.rec.lastGonein \in {BoolV(TRUE), NumV(1)}

\* base go-times that contain the text 00:00:00
SentinelTexts == {T_midnight, Tm_midnightPad}

\* time texts that begin with 24
RolloverTexts == {Tm_2430}

ProbeDateText == IF probe.kind = "schedule" THEN probe.rec.show_date ELSE probe.rec.dt

\* the time text by priority: latest, then base (a trip's base only without
\* the 00:00:00 sentinel), then, for a trip, the start time
ProbeTimeText ==
    IF probe.kind = "schedule"
    THEN (IF probe.rec.latest_estimated_start_time # <<>>
          THEN probe.rec.latest_estimated_start_time
          ELSE probe.rec.estimated_start_time)
    ELSE (IF probe.rec.latest_estimated_go_time # <<>>
          THEN probe.rec.latest_estimated_go_time
          ELSE IF probe.rec.estimated_go_time \notin {<<>>} \cup SentinelTexts
          THEN probe.rec.estimated_go_time
          ELSE probe.rec.estimated_start_time)

ProbeTarget ==
    toEpochSecondsLocal(ProbeDateText, ProbeTimeText, probe.tzOffsetMinutes,
                        probe.kind = "trip" /\ startsWith(ProbeTimeText, T_24))

\* C3: for a schedule or trip record that is neither completed nor live and
\* whose target resolves, till = target - now gives HOT when till <= 1800
\* (also when till <= 0), WARM when 1800 < till <= 3600, COLD when till > 3600.
C3_TillThresholds ==
    (Classified /\ ~ProbeCompleted /\ ~ProbeLive /\ ProbeTarget.t = "num") =>
        LET till == ProbeTarget.v - probe.nowEpoch
        IN  /\ probe.targetEpoch = ProbeTarget
            /\ probe.temp = IF till <= 1800 THEN "HOT"
                            ELSE IF till <= 3600 THEN "WARM"
                            ELSE "COLD"

C3_Witness ==
    /\ probe.kind = "schedule" /\ probe.stage = "classified"
    /\ ~ProbeCompleted /\ ~ProbeLive
    /\ ProbeTarget = NumV(probe.nowEpoch + 1800)
    /\ probe.temp = "HOT"

\* C4: a status that reads "completed" apart from case and surrounding
\* whitespace gives DONE whatever the date, the times and the liveness flag
\* are; otherwise a live record (schedule: status "underway"; trip: flag true
\* or 1) gives LIVE whatever the date and the times are.
C4_StatusBeforeTime ==
    Classified =>
        /\ ProbeCompleted => probe.temp = "DONE" /\ probe.targetEpoch = NullV
        /\ (~ProbeCompleted /\ ProbeLive) => probe.temp = "LIVE" /\ probe.targetEpoch = NullV

C4_Witness ==
    /\ probe.kind = "trip" /\ probe.stage = "classified"
    /\ probe.rec.latestStatus = St_COMPLETED /\ probe.rec.lastGonein = NumV(1)
    /\ probe.rec.latest_estimated_go_time = Tm_1400
    /\ probe.temp = "DONE"

\* the table of section 4.3
CadenceTable(mode, temp) ==
    IF mode = "HOLDOVER" \/ temp = "DONE" THEN NullV
    ELSE IF mode = "DAY"
    THEN (IF temp = "COLD" THEN NumV(1200) ELSE IF temp = "WARM" THEN NumV(300) ELSE NumV(180))
    ELSE (IF temp \in {"COLD", "WARM"} THEN NumV(1200) ELSE NumV(300))

\* C5 as stated: the tabulated value for every known (mode, bucket) pair, and
\* 300 for a bucket outside the known set (HOLDOVER, for which every bucket
\* gives null, set aside).
C5_CadenceTableUnknown300 ==
    probe.stage = "cadence" =>
        /\ probe.temp \in Buckets => probe.interval = CadenceTable(probe.mode, probe.temp)
        /\ (probe.temp \notin Buckets /\ probe.mode # "HOLDOVER") => probe.interval = NumV(300)

\* C5 (amended): the tabulated value for every known (mode, bucket) pair; a
\* bucket outside the known set gives 300 in DAY mode, 1200 in NIGHT mode and
\* null in HOLDOVER mode.
C5_CadenceTable ==
    probe.stage = "cadence" =>
        /\ probe.temp \in Buckets => probe.interval = CadenceTable(probe.mode, probe.temp)
        /\ probe.temp \notin Buckets =>
            probe.interval = IF probe.mode = "DAY" THEN NumV(300)
                             ELSE IF probe.mode = "NIGHT" THEN NumV(1200)
                             ELSE NullV

C5_Witness ==
    /\ probe.stage = "cadence" /\ probe.mode = "NIGHT" /\ probe.temp = "WARM"
    /\ probe.interval = NumV(1200)

\* C10: a record that is neither completed nor live and whose date text or
\* chosen time text is absent or in no accepted format is classified COLD;
\* an update is built for it all the same, and in DAY mode the update leaves
\* the record with next_due_epoch = now + 1200 (the field is in the patch
\* unless the record holds that value already).
C10_UnparseableIsCold ==
    (Classified /\ ~ProbeCompleted /\ ~ProbeLive
        /\ (ProbeDateText \in BadDateTexts \/ ProbeTimeText \in BadTimeTexts)) =>
        /\ probe.temp = "COLD"
        /\ probe.stage \in {"built", "applied"} =>
            /\ probe.update.id = "rec1"
            /\ probe.update.fields[FIELD_EPOCH] = NumV(probe.nowEpoch)
        /\ (probe.stage = "built" /\ probe.mode = "DAY") =>
            IF FIELD_NEXT_DUE \in DOMAIN probe.update.fields
            THEN probe.update.fields[FIELD_NEXT_DUE] = NumV(probe.nowEpoch + 1200)
            ELSE probe.rec[FIELD_NEXT_DUE] = NumV(probe.nowEpoch + 1200)
        /\ (probe.stage = "applied" /\ probe.mode = "DAY") =>
            /\ probe.rec[FIELD_NEXT_DUE] = NumV(probe.nowEpoch + 1200)
            /\ probe.rec[FIELD_TEMP] = "COLD" /\ probe.rec[FIELD_BUCKET] = "COLD"

C10_Witness ==
    /\ probe.kind = "trip" /\ probe.stage = "applied" /\ probe.mode = "DAY"
    /\ probe.rec.dt = D_words /\ probe.rec.latest_estimated_go_time = Tm_1400
    /\ FIELD_NEXT_DUE \in DOMAIN probe.update.fields
    /\ probe.rec[FIELD_NEXT_DUE] = NumV(probe.nowEpoch + 1200)
    /\ probe.rec[FIELD_BUCKET] = "COLD"

\* C11: two runs on the same record, clock and mode build the same update;
\* once the store holds the values of that update, a further run with the
\* same clock and mode builds an update that carries the epoch stamp alone,
\* whatever the bucket and the mode (a null next-due included).
C11_IdempotentUnderSuppression ==
    probe.stage = "rerun" =>
        /\ probe.again = probe.update
        /\ \A k \in DOMAIN probe.update.fields : probe.rec[k] = probe.update.fields[k]
        /\ DOMAIN probe.update2.fields = {FIELD_EPOCH}
        /\ probe.update2.fields[FIELD_EPOCH] = NumV(probe.nowEpoch)
        /\ probe.update2.id = probe.update.id

\* a completed record that held a number: the first update clears next-due,
\* the further one has nothing but the stamp
C11_Witness ==
    /\ probe.stage = "rerun" /\ probe.temp = "DONE" /\ probe.mode = "NIGHT"
    /\ probe.existing[FIELD_NEXT_DUE].t = "num"
    /\ FIELD_NEXT_DUE \in DOMAIN probe.update.fields
    /\ probe.update.fields[FIELD_NEXT_DUE] = NullV
    /\ DOMAIN probe.update2.fields = {FIELD_EPOCH}

\* C15: for a trip, the time text is the first present one of: the latest
\* go-time, the base go-time unless it contains 00:00:00, the start time; a
\* base go-time that contains 00:00:00 is never the one chosen; rollover is
\* switched on exactly when the chosen text begins with 24; and a trip that
\* is neither completed nor live is classified by that text and that switch.
C15_TripTimeChoice ==
    (probe.kind = "trip" /\ probe.stage # "in") =>
        LET latest == probe.rec.latest_estimated_go_time
            go == probe.rec.estimated_go_time
            start == probe.rec.estimated_start_time
            chosen == IF latest # <<>> THEN latest
                      ELSE IF go # <<>> /\ go \notin SentinelTexts THEN go
                      ELSE start
        IN  /\ probe.timeStr = chosen
            /\ go \in SentinelTexts => probe.timeStr # go
            /\ probe.allow24 <=> chosen \in RolloverTexts
            /\ (~ProbeCompleted /\ ~ProbeLive) =>
                    probe.targetEpoch =
                        toEpochSecondsLocal(probe.rec.dt, chosen, probe.tzOffsetMinutes,
                                            chosen \in RolloverTexts)

\* the base go-time holds the sentinel inside a longer text: the start time is used
C15_Witness ==
    /\ probe.kind = "trip" /\ probe.stage = "classified"
    /\ ~ProbeCompleted /\ ~ProbeLive
    /\ probe.rec.latest_estimated_go_time = <<>>
    /\ probe.rec.estimated_go_time = Tm_midnightPad
    /\ probe.rec.estimated_start_time = Tm_2pm
    /\ probe.rec.dt = D_iso
    /\ probe.timeStr = Tm_2pm /\ ~probe.allow24
    /\ probe.targetEpoch = NumV(Target0 - probe.tzOffsetMinutes * 60)

\* the pass on the record with the stored output fields replaced by out
PassWithOutputs(out) ==
    LET before == ApplyPatch(probe.existing, out)
        u == MapRecord(probe.kind, "rec1", before, probe.nowEpoch,
                       probe.tzOffsetMinutes, probe.mode)
    IN  [update |-> u, after |-> ApplyPatch(before, u.fields)]

\* C18: a record that agrees with the probed one on every input field and
\* holds other values in epoch, temp, bucket and next_due_epoch is, under the
\* same clock and mode, given the same bucket and the same next-due, and the
\* two hold the same epoch, temp, bucket and next_due_epoch after the pass.
C18_OutputsNeverRead ==
    probe.stage = "applied" =>
        \A out \in FnOuts :
            LET other == PassWithOutputs(out)
            IN  /\ \A k \in {FIELD_EPOCH, FIELD_TEMP, FIELD_BUCKET, FIELD_NEXT_DUE} :
                    other.after[k] = probe.rec[k]
                /\ other.after[FIELD_TEMP] = probe.temp
                /\ \A k \in DOMAIN other.update.fields \cap DOMAIN probe.update.fields :
                    other.update.fields[k] = probe.update.fields[k]

\* the record held a next-due ahead of now; it ends like the blank one does
C18_Witness ==
    /\ probe.stage = "applied" /\ probe.kind = "schedule" /\ probe.mode = "DAY"
    /\ probe.existing[FIELD_NEXT_DUE].t = "num"
    /\ probe.existing[FIELD_NEXT_DUE].v > probe.nowEpoch
    /\ probe.existing[FIELD_TEMP] = "COLD" /\ probe.temp = "WARM"
    /\ probe.rec[FIELD_NEXT_DUE] = NumV(probe.nowEpoch + 300)
    /\ PassWithOutputs(OutBlank).after[FIELD_NEXT_DUE] = probe.rec[FIELD_NEXT_DUE]

----------------------------------------------------------------------------
(* Further properties of a run (checked under Spec)                        *)

OutputFields == {FIELD_EPOCH, FIELD_TEMP, FIELD_BUCKET, FIELD_NEXT_DUE}

\* the updates a pass has built target records the pass listed, name output
\* fields only and carry the pass's now as epoch
UpdatesWellFormed(updates, listed, nowEpoch) ==
    \A k \in 1..Len(updates) :
        /\ \E j \in 1..Len(listed) : listed[j].id = updates[k].id
        /\ DOMAIN updates[k].fields \subseteq OutputFields
        /\ FIELD_EPOCH \in DOMAIN updates[k].fields
        /\ updates[k].fields[FIELD_EPOCH] = NumV(nowEpoch)

\* a step leaves the shows alone, keeps the records of the two tables and
\* their input fields, and a record it changes gets the now of a pass in epoch
StoreFrame ==
    /\ store'[TABLE_SHOWS] = store[TABLE_SHOWS]
    /\ \A t \in TagTables :
        /\ Len(store'[t]) = Len(store[t])
        /\ \A k \in 1..Len(store[t]) :
            /\ store'[t][k].id = store[t][k].id
            /\ DOMAIN store'[t][k].fields = DOMAIN store[t][k].fields
            /\ \A f \in DOMAIN store[t][k].fields \ OutputFields :
                store'[t][k].fields[f] = store[t][k].fields[f]
            /\ store'[t][k] # store[t][k] =>
                \E p \in DOMAIN runs :
                    /\ runs[p].pc \in {"patchSchedule", "patchTrips"}
                    /\ store'[t][k].fields[FIELD_EPOCH] = NumV(runs[p].tagClk.nowEpoch)

\* C12: no step of a run creates or deletes a record or changes a show
\* record or an input field of a schedule or trip record; every update a
\* pass submits targets the id of a record it listed in that pass, names
\* only epoch, temp, bucket and next_due_epoch, and always carries epoch
\* set to the pass's now-epoch.
C12_PatchesOnlyOutputFields ==
    /\ [](\A p \in DOMAIN runs :
            /\ UpdatesWellFormed(runs[p].schedUpdates, runs[p].sched, runs[p].tagClk.nowEpoch)
            /\ UpdatesWellFormed(runs[p].tripUpdates, runs[p].trips, runs[p].tagClk.nowEpoch))
    /\ [][StoreFrame]_vars

\* a completed NIGHT pass: the trip record has the pass's stamp and its inputs
C12_Witness ==
    \E p \in DOMAIN runs :
        /\ runs[p].pc = "done" /\ runs[p].mode = "NIGHT"
        /\ Len(store[TABLE_TRIPS]) = 1 /\ Len(store[TABLE_SCHEDULE]) = 1
        /\ store[TABLE_TRIPS][1].fields[FIELD_EPOCH] = NumV(runs[p].tagClk.nowEpoch)
        /\ store[TABLE_TRIPS][1].fields[TRIP_GO_BASE] = T_midnight
        /\ store[TABLE_TRIPS][1].id = runs[p].tripUpdates[1].id
        /\ DOMAIN runs[p].tripUpdates[1].fields = OutputFields

\* mode texts of the shows that read DAY and NIGHT
DayTexts == {T_DAY, T_dayPad}
NightTexts == {T_NIGHT}

\* C13: a run resolves its mode once, from one listing of the shows: the
\* trimmed, upper-cased mode of the first show; a value that is not DAY,
\* NIGHT or HOLDOVER, a blank or missing value and an empty view all give
\* HOLDOVER, and such a run starts no pass and submits no patch.
C13_UnknownModeIsHoldover ==
    \A p \in DOMAIN runs :
        LET r == runs[p]
            shows == store[TABLE_SHOWS]
            raw == IF shows = <<>> THEN <<>> ELSE shows[1].fields[FIELD_MODE]
            listings == {i \in 1..Len(log) : /\ log[i].run = p /\ log[i].req = "list"
                                             /\ log[i].table = TABLE_SHOWS}
        IN  /\ Cardinality(listings) <= 1
            /\ r.mode # "" =>
                /\ \E i \in listings : log[i].status = "ok"
                /\ r.mode = IF raw \in DayTexts THEN "DAY"
                            ELSE IF raw \in NightTexts THEN "NIGHT"
                            ELSE "HOLDOVER"
                /\ raw \notin DayTexts \cup NightTexts =>
                    /\ r.pc = "exit0"
                    /\ r.passesStarted = 0
                    /\ \A i \in 1..Len(log) : log[i].run = p => log[i].req # "patch"

\* a mode text that is none of the three names
C13_Witness ==
    \E p \in DOMAIN runs :
        /\ store[TABLE_SHOWS] # <<>>
        /\ store[TABLE_SHOWS][1].fields[FIELD_MODE] = T_dusk
        /\ runs[p].mode = "HOLDOVER" /\ runs[p].pc = "exit0"
        /\ Len(store[TABLE_SCHEDULE]) = 1

----------------------------------------------------------------------------
(* The clock snapshot (checked under SpecFn)                               *)

\* C14: the snapshot follows the response body: a raw integer N of epoch
\* milliseconds gives floor(N / 1000) with offset 0; a JSON payload with a
\* valid timestamp and an integer offset gives that instant and that offset;
\* any other body gives the local process clock with offset 0.
C14_SnapshotFromBody ==
    probe.stage = "clock" =>
        probe.clock =
            IF probe.body.digits
            THEN [nowEpoch |-> probe.body.n, tzOffsetMinutes |-> 0]
            ELSE IF /\ probe.body.json = "object"
                    /\ probe.body.iso.t = "num" /\ probe.body.off.t = "num"
            THEN [nowEpoch |-> probe.body.iso.v, tzOffsetMinutes |-> probe.body.off.v]
            ELSE [nowEpoch |-> probe.dateNow, tzOffsetMinutes |-> 0]

----------------------------------------------------------------------------
(* The time parser on dates and times of day written out as texts.  probe  *)
(* holds the calendar date and the time of day, the texts made of them and *)
(* what toEpochSecondsLocal makes of the texts.                            *)

Pad2(n) == <<Digits[((n \div 10) % 10) + 1], Digits[(n % 10) + 1]>>
Pad4(n) == Pad2(n \div 100) \o Pad2(n % 100)
Dec(n) == IF n < 10 THEN <<Digits[n + 1]>> ELSE Pad2(n)

\* a date as text: "iso" 2024-03-10, "us4" 3/10/2024, "us2" 03/10/24
DateText(c, fmt) ==
    IF fmt = "iso" THEN Pad4(c[1]) \o <<"-">> \o Pad2(c[2]) \o <<"-">> \o Pad2(c[3])
    ELSE IF fmt = "us4" THEN Dec(c[2]) \o <<"/">> \o Dec(c[3]) \o <<"/">> \o Pad4(c[1])
    ELSE Pad2(c[2]) \o <<"/">> \o Pad2(c[3]) \o <<"/">> \o Pad2(c[1] % 100)

\* a time of day as text: t.se < 0 leaves the seconds out; t.mer is "" for a
\* 24-hour text, else the meridiem as written ("AM", "pm", " PM" ...)
TimeText(t) ==
    (IF t.mer = <<>> THEN Pad2(t.h) ELSE Dec(t.h)) \o <<":">> \o Pad2(t.mi)
        \o (IF t.se < 0 THEN <<>> ELSE <<":">> \o Pad2(t.se)) \o t.mer

TimeDates ==
    {<<2024, 3, 10>>, <<2024, 2, 28>>, <<2024, 2, 29>>, <<2023, 2, 28>>, <<2024, 1, 31>>,
     <<2024, 4, 30>>, <<2024, 12, 31>>, <<1999, 12, 31>>, <<2000, 2, 29>>, <<2036, 2, 29>>}

TimeFormats == {"iso", "us4", "us2"}

\* a two-digit year is a year of 2000..2099 (line 114)
FormatsOf(c) == IF c[1] \in 2000..2099 THEN TimeFormats ELSE TimeFormats \ {"us2"}

M_AM == <<" ", "A", "M">>
M_PM == <<" ", "P", "M">>
M_am == <<"a", "m">>
M_pm == <<"p", "m">>

TimesOfDay ==
    {[h |-> h, mi |-> mi, se |-> se, mer |-> <<>>] :
        h \in {0, 9, 12, 14, 23}, mi \in {0, 30}, se \in {-1, 15}}
    \cup {[h |-> h, mi |-> mi, se |-> -1, mer |-> mer] :
        h \in {12, 1, 2, 11}, mi \in {0, 59}, mer \in {M_AM, M_PM, M_am, M_pm}}

RolloverTimes ==
    {[h |-> h, mi |-> mi, se |-> se, mer |-> <<>>] :
        h \in {24, 25, 47, 48}, mi \in {0, 30}, se \in {-1, 15}}

TimeTzOffsets == {0, -300, 330}

\* the calendar by the rules of the months
IsLeap(y) == (y % 4 = 0 /\ y % 100 # 0) \/ y % 400 = 0
DaysInMonth(y, m) ==
    IF m = 2 THEN (IF IsLeap(y) THEN 29 ELSE 28)
    ELSE IF m \in {4, 6, 9, 11} THEN 30 ELSE 31
NextDay(c) ==
    IF c[3] < DaysInMonth(c[1], c[2]) THEN <<c[1], c[2], c[3] + 1>>
    ELSE IF c[2] < 12 THEN <<c[1], c[2] + 1, 1>>
    ELSE <<c[1] + 1, 1, 1>>

RECURSIVE DaysBeforeYear(_)
DaysBeforeYear(y) ==
    IF y <= 1970 THEN 0 ELSE DaysBeforeYear(y - 1) + (IF IsLeap(y - 1) THEN 366 ELSE 365)

RECURSIVE DaysBeforeMonth(_, _)
DaysBeforeMonth(y, m) ==
    IF m <= 1 THEN 0 ELSE DaysBeforeMonth(y, m - 1) + DaysInMonth(y, m - 1)

\* the epoch of the date c and the 24-hour time h:mi:se taken as UTC
WallClockEpoch(c, h, mi, se) ==
    (DaysBeforeYear(c[1]) + DaysBeforeMonth(c[1], c[2]) + c[3] - 1) * 86400
        + h * 3600 + mi * 60 + se

\* the hour of the day a time of day names
Hour24(t) ==
    IF t.mer = <<>> THEN t.h
    ELSE IF t.mer \in {M_AM, M_am} THEN (IF t.h = 12 THEN 0 ELSE t.h)
    ELSE (IF t.h = 12 THEN 12 ELSE t.h + 12)

TimeProbe(c, fmt, t, tz, allow) ==
    [kind |-> "time", stage |-> "in", civil |-> c, fmt |-> fmt, time |-> t,
     dateText |-> DateText(c, fmt), timeText |-> TimeText(t),
     tzOffsetMinutes |-> tz, allow24Hour |-> allow,
     epoch |-> NullV, nextDayText |-> <<>>, lessText |-> <<>>, epochNextDay |-> NullV]

TimeInit ==
    /\ store = <<>>
    /\ runs = <<>>
    /\ log = <<>>
    /\ clockSeq = 0
    /\ \E c \in TimeDates, tz \in TimeTzOffsets :
        \E fmt \in FormatsOf(c) :
            \/ \E t \in TimesOfDay, allow \in BOOLEAN : probe = TimeProbe(c, fmt, t, tz, allow)
            \/ \E t \in RolloverTimes : probe = TimeProbe(c, fmt, t, tz, TRUE)

\* toEpochSecondsLocal on the two texts
TimeResolve ==
    /\ probe.kind = "time" /\ probe.stage = "in"
    /\ probe' = [probe EXCEPT
                    !.stage = "resolved",
                    !.epoch = toEpochSecondsLocal(probe.dateText, probe.timeText,
                                                  probe.tzOffsetMinutes, probe.allow24Hour)]
    /\ UNCHANGED <<store, runs, log, clockSeq>>

\* for an hour of 24 or more: toEpochSecondsLocal on the text of the next
\* calendar day and the text of the time with 24 hours less
TimeResolveNextDay ==
    /\ probe.kind = "time" /\ probe.stage = "resolved" /\ probe.time.h >= 24
    /\ \E fmt \in FormatsOf(NextDay(probe.civil)) :
        LET nextDayText == DateText(NextDay(probe.civil), fmt)
            lessText == TimeText([probe.time EXCEPT !.h = @ - 24])
        IN  probe' = [probe EXCEPT
                        !.stage = "nextDay",
                        !.nextDayText = nextDayText, !.lessText = lessText,
                        !.epochNextDay = toEpochSecondsLocal(nextDayText, lessText,
                                                             probe.tzOffsetMinutes,
                                                             probe.allow24Hour)]
    /\ UNCHANGED <<store, runs, log, clockSeq>>

TimeNext ==
    \/ TimeResolve
    \/ TimeResolveNextDay

SpecTime == TimeInit /\ [][TimeNext]_vars

\* C16: with rollover enabled, a date D with an hour h >= 24 resolves to the
\* epoch that D plus one calendar day with the hour h - 24 resolves to,
\* whatever the minute and the offset, D the last day of a month or of a
\* year included.
C16_RolloverIsNextDay ==
    (probe.kind = "time" /\ probe.stage = "nextDay") =>
        /\ probe.epoch.t = "num"
        /\ probe.epochNextDay = probe.epoch

\* 2024-12-31 24:30 is 2025-01-01 00:30
C16_Witness ==
    /\ probe.kind = "time" /\ probe.stage = "nextDay"
    /\ probe.civil = <<2024, 12, 31>> /\ probe.time.h = 24 /\ probe.time.mi = 30
    /\ probe.time.se = -1 /\ probe.tzOffsetMinutes = 0
    /\ probe.nextDayText = DateText(<<2025, 1, 1>>, "iso")
    /\ probe.lessText = <<"0", "0", ":", "3", "0">>
    /\ probe.epoch = NumV(WallClockEpoch(<<2025, 1, 1>>, 0, 30, 0))
    /\ probe.epochNextDay = probe.epoch

----------------------------------------------------------------------------
(* Two runs of the job at once on the same store: nothing in main or       *)
(* tagOnce coordinates them, so their requests interleave freely.  The     *)
(* show is in NIGHT mode, in which a run makes one pass: the steps of the   *)
(* wait and of the second pass are never enabled and are left out of the   *)
(* next-state relation.                                                    *)

InitTwo ==
    /\ store = [shows |-> <<ShowRecord(1, T_NIGHT)>>,
                watch_schedule |-> <<[id |-> <<"sched", 1>>,
                                      fields |-> SchedRecord(<<>>, D_iso, Tm_1400, <<>>, OutBlank)]>>,
                watch_trips |-> <<[id |-> <<"trip", 1>>,
                                   fields |-> TripRecord(<<>>, NumV(0), D_iso, Tm_1400,
                                                         <<>>, <<>>, OutBlank)]>>]
    /\ runs = [p \in {1, 2} |-> InitRun]
    /\ log = <<>>
    /\ clockSeq = 0
    /\ probe = NoProbe

NextTwo ==
    \/ \E p \in DOMAIN runs : MainGetServerClock(p)
    \/ \E p \in DOMAIN runs : GetCurrentMode(p)
    \/ \E p \in DOMAIN runs : TagOnceListSchedule(p)
    \/ \E p \in DOMAIN runs : TagOncePatchSchedule(p)
    \/ \E p \in DOMAIN runs : TagOnceListTrips(p)
    \/ \E p \in DOMAIN runs : TagOncePatchTrips(p)

SpecTwo == InitTwo /\ [][NextTwo]_vars

\* the snapshots the runs hold were served in the order of their instants
ClockMonotone ==
    LET snaps == {runs[p].clk : p \in DOMAIN runs} \cup {runs[p].clk2 : p \in DOMAIN runs}
    IN  \A a, b \in snaps :
            (a.id # 0 /\ b.id # 0 /\ a.id < b.id) => a.nowEpoch <= b.nowEpoch

\* C19: with two runs interleaved and a clock that never goes back, no
\* step lowers the epoch stamp a record holds.
C19_EpochNeverDecreases ==
    [][ClockMonotone =>
        \A t \in TagTables : \A k \in 1..Len(store[t]) :
            (store[t][k].fields[FIELD_EPOCH].t = "num"
                /\ store'[t][k].fields[FIELD_EPOCH].t = "num")
            => store'[t][k].fields[FIELD_EPOCH].v >= store[t][k].fields[FIELD_EPOCH].v]_vars

(***************************************************************************)
(* The publish sink: commitBulk of the publisher job                       *)
(* (src/unnamed/part_001, lines 277-324).  The call's state is kept in     *)
(* runs, the POST requests it has made in log.                             *)
(***************************************************************************)
RETRY_MAX_ATTEMPTS == 5
RETRY_BASE_DELAY_MS == 800

Tx_notFF == <<"n", "o", "t", " ", "a", " ", "f", "a", "s", "t", " ", "f", "o", "r", "w", "a", "r", "d">>
Tx_updateNotFF == <<"U", "p", "d", "a", "t", "e", " ", "i", "s", " ", "n", "o", "t", " ", "a", " ", "f", "a", "s", "t", " ", "f", "o", "r", "w", "a", "r", "d">>
Tx_refPatch == <<"r", "e", "f", "-", "p", "a", "t", "c", "h", " ", "4", "2", "2">>
Tx_validation == <<"V", "a", "l", "i", "d", "a", "t", "i", "o", "n", " ", "F", "a", "i", "l", "e", "d">>
Tx_committed == <<"c", "o", "m", "m", "i", "t", "t", "e", "d">>

\* isNonFastForward422 without the status test.
isNonFastForward422AnyStatus(status, text) ==
    \/ includes(text, Tx_notFF)
    \/ includes(text, Tx_updateNotFF)
    \/ includes(text, Tx_refPatch)

isNonFastForward422(status, text) ==
    IF status # 422 THEN FALSE
    ELSE \/ includes(text, Tx_notFF)
         \/ includes(text, Tx_updateNotFF)
         \/ includes(text, Tx_refPatch)

\* sleepReal: the time actually waited, in milliseconds.
sleepReal(ms) == IF ms < 0 THEN 0 ELSE IF ms > 2000 THEN 2000 ELSE ms

\* Response.ok of fetch: the status is in the range 200..299.
ResOk(status) == status >= 200 /\ status <= 299

\* The responses the publish endpoint is given to answer with.  kind says
\* what the endpoint meant: "conflict" is a 422 rejected as not a fast
\* forward, "other" any other refusal.
CommitResponse(kind, status, text) ==
    [kind |-> kind, status |-> status, ok |-> ResOk(status), text |-> text]

CommitResponses ==
    { CommitResponse("success", 200, Tx_committed),
      CommitResponse("success", 201, <<>>),
      CommitResponse("conflict", 422, Tx_updateNotFF),
      CommitResponse("conflict", 422, Tx_refPatch),
      CommitResponse("other", 422, Tx_validation),
      CommitResponse("other", 409, Tx_notFF),
      CommitResponse("other", 500, <<>>) }

\* fetchWithTimeout rejected (network failure, or the abort after 30 s).
FetchRejected == [kind |-> "rejected", status |-> 0, ok |-> FALSE, text |-> <<>>]

\* Math.floor(Math.random() * 600): the two ends of the range.
CommitJitters == {0, 599}

CommitBodies ==
    { [message |-> "publish", force |-> f, files |-> fs] :
        f \in BOOLEAN,
        fs \in { <<"items/a.json">>, <<"items/a.json", "items/index.json">> } }

NoCommitResult == [how |-> "none", ok |-> FALSE, status |-> 0, text |-> <<>>]
CommitReturn(ok, status, text) == [how |-> "returned", ok |-> ok, status |-> status, text |-> text]
CommitThrown == [how |-> "thrown", ok |-> FALSE, status |-> 0, text |-> <<>>]

CommitInit ==
    /\ \E b \in CommitBodies :
         runs = [pc |-> "post", body |-> b, attempt |-> 1, lastStatus |-> 0,
                 lastText |-> <<>>, delay |-> 0, slept |-> 0, result |-> NoCommitResult]
    /\ log = <<>>
    /\ store = [shows |-> <<>>, watch_schedule |-> <<>>, watch_trips |-> <<>>]
    /\ clockSeq = 0
    /\ probe = NoProbe

CommitPosted(res) ==
    Append(log, [method |-> "POST", body |-> runs.body, attempt |-> runs.attempt, res |-> res])

\* One turn of the loop up to its continue or return: the POST, the answer
\* and the decision taken on it.
CommitBulkPost ==
    /\ runs.pc = "post"
    /\ runs.attempt <= RETRY_MAX_ATTEMPTS
    /\ \E res \in CommitResponses : \E jitter \in CommitJitters :
         /\ log' = CommitPosted(res)
         /\ runs' =
              IF res.ok
              THEN [runs EXCEPT !.pc = "done", !.lastStatus = res.status, !.lastText = res.text,
                                !.result = CommitReturn(TRUE, res.status, res.text)]
              ELSE IF isNonFastForward422(res.status, res.text) /\ runs.attempt < RETRY_MAX_ATTEMPTS
              THEN [runs EXCEPT !.pc = "sleep", !.lastStatus = res.status, !.lastText = res.text,
                                !.delay = RETRY_BASE_DELAY_MS * runs.attempt + jitter]
              ELSE [runs EXCEPT !.pc = "done", !.lastStatus = res.status, !.lastText = res.text,
                                !.result = CommitReturn(FALSE, res.status, res.text)]
    /\ UNCHANGED <<store, clockSeq, probe>>

\* The POST is made and fetchWithTimeout rejects: commitBulk has no catch,
\* so the call ends by throwing.
CommitBulkFetchRejects ==
    /\ runs.pc = "post"
    /\ runs.attempt <= RETRY_MAX_ATTEMPTS
    /\ log' = CommitPosted(FetchRejected)
    /\ runs' = [runs EXCEPT !.pc = "done", !.result = CommitThrown]
    /\ UNCHANGED <<store, clockSeq, probe>>

\* The backoff ends and the loop goes to its next turn; after the last turn
\* the loop is left and the last answer returned.
CommitBulkSleepEnds ==
    /\ runs.pc = "sleep"
    /\ runs' =
         IF runs.attempt + 1 <= RETRY_MAX_ATTEMPTS
         THEN [runs EXCEPT !.pc = "post", !.attempt = runs.attempt + 1,
                           !.slept = runs.slept + sleepReal(runs.delay)]
         ELSE [runs EXCEPT !.pc = "done", !.attempt = runs.attempt + 1,
                           !.slept = runs.slept + sleepReal(runs.delay),
                           !.result = CommitReturn(FALSE, runs.lastStatus, runs.lastText)]
    /\ UNCHANGED <<store, log, clockSeq, probe>>

CommitNext ==
    \/ CommitBulkPost
    \/ CommitBulkFetchRejects
    \/ CommitBulkSleepEnds

\* Every await of commitBulk ends: the fetch is aborted after 30 s and the
\* backoff is a timer of at most 2 s.
SpecCommit == CommitInit /\ [][CommitNext]_vars /\ WF_vars(CommitNext)

\* The answers before the last one were all conflicts.
EarlierAllConflicts ==
    \A i \in 1..(Len(log) - 1) : log[i].res.kind = "conflict"

LastRes == log[Len(log)].res

CommitOutcomeRight ==
    /\ Len(log) <= 5
    /\ \A i \in 1..Len(log) : log[i].attempt = i /\ log[i].body = runs.body
    /\ Len(log) > 0 => EarlierAllConflicts
    /\ runs.pc = "sleep" => /\ LastRes.kind = "conflict"
                            /\ Len(log) < 5
    /\ runs.pc = "post" => Len(log) < 5
    /\ (runs.pc = "done" /\ runs.result.how = "returned") =>
          /\ Len(log) > 0
          /\ runs.result.status = LastRes.status
          /\ runs.result.text = LastRes.text
          /\ runs.result.ok <=> (LastRes.kind = "success")
          /\ (~runs.result.ok) =>
                (LastRes.kind = "other" \/ (LastRes.kind = "conflict" /\ Len(log) = 5))

\* C20: commitBulk ends after at most 5 POSTs; it returns success on the
\* first 2xx answer, goes on to another POST only after a 422
\* non-fast-forward conflict with fewer than 5 attempts made, and returns
\* failure at once on any other non-2xx answer or on the 5th conflict.
C20_CommitBulkBoundedRetry ==
    /\ [] CommitOutcomeRight
    /\ <> (runs.pc = "done")

\* Four conflicts are retried and the fifth is returned as the failure.
C20_Witness ==
    /\ runs.pc = "done"
    /\ Len(log) = 5
    /\ runs.result = CommitReturn(FALSE, 422, Tx_refPatch)
    /\ \A i \in 1..5 : log[i].res.kind = "conflict"

----------------------------------------------------------------------------
(* The stored cadence after a pass (checked under Spec)                    *)

\* the run is between passes or over: no pass of it is under way
PassComplete(r) == r.passesDone >= 1 /\ r.passesDone = r.passesStarted

\* C26: once a pass in mode DAY or NIGHT has completed, every record it
\* patched has its stored epoch equal to the pass's now-epoch and its stored
\* next_due_epoch equal to that epoch plus intervalSecondsFor(mode, stored
\* temp), or null when the stored temp is DONE, whatever next_due_epoch was
\* stored before.
C26_StoredDueFollowsCadence ==
    \A p \in DOMAIN runs :
        (PassComplete(runs[p]) /\ runs[p].mode \in {"DAY", "NIGHT"}) =>
            \A t \in TagTables : \A k \in 1..Len(store[t]) :
                LET f == store[t][k].fields
                IN  /\ f[FIELD_EPOCH] = NumV(runs[p].tagClk.nowEpoch)
                    /\ f[FIELD_NEXT_DUE] =
                          IF f[FIELD_TEMP] = "DONE" THEN NullV
                          ELSE NumV(f[FIELD_EPOCH].v + intervalSecondsFor(runs[p].mode, f[FIELD_TEMP]).v)

\* a record stored COLD with an older next_due_epoch stays COLD and has the
\* due time of the second DAY pass
C26_Witness ==
    \E p \in DOMAIN runs :
        /\ runs[p].pc = "done" /\ runs[p].mode = "DAY" /\ runs[p].passesDone = 2
        /\ \E k \in 1..Len(store[TABLE_SCHEDULE]) :
            LET f == store[TABLE_SCHEDULE][k].fields
            IN  /\ f[SCHED_SHOW_DATE] = D_words
                /\ f[FIELD_TEMP] = "COLD"
                /\ f[FIELD_NEXT_DUE] = NumV(runs[p].tagClk.nowEpoch + 1200)
                /\ f[FIELD_NEXT_DUE] # OutCold.next_due_epoch

----------------------------------------------------------------------------
(* airtableBatchUpdate on tables longer than one chunk: a NIGHT run (one   *)
(* pass) over tables whose lengths lie on both sides of the chunk size.    *)

BatchTable(tag, fields, n) == [k \in 1..n |-> [id |-> <<tag, k>>, fields |-> fields]]

InitBatch ==
    /\ \E n \in {0, 1, 10, 11, 25}, m \in {0, 12} :
         store = [shows |-> <<ShowRecord(1, T_NIGHT)>>,
                  watch_schedule |->
                      BatchTable("sched", SchedRecord(<<>>, D_iso, Tm_1400, <<>>, OutBlank), n),
                  watch_trips |->
                      BatchTable("trip", TripRecord(<<>>, NumV(0), D_iso, Tm_1400,
                                                    <<>>, <<>>, OutBlank), m)]
    /\ runs = [p \in {1} |-> InitRun]
    /\ log = <<>>
    /\ clockSeq = 0
    /\ probe = NoProbe

SpecBatch == InitBatch /\ [][NextTwo]_vars

\* the PATCH requests run p has sent for table t, in the order sent
PatchesSent(p, t) ==
    SelectSeq(log, LAMBDA e : e.run = p /\ e.req = "patch" /\ e.table = t)

\* the records of a sequence of requests, one after the other
RECURSIVE RecordsOf(_)
RecordsOf(es) == IF es = <<>> THEN <<>> ELSE es[1].records \o RecordsOf(Tail(es))

\* the updates tagOnce handed to airtableBatchUpdate for table t
UpdatesFor(r, t) == IF t = TABLE_SCHEDULE THEN r.schedUpdates ELSE r.tripUpdates

\* airtableBatchUpdate has returned for table t
BatchReturned(r, t) ==
    IF t = TABLE_SCHEDULE THEN r.pc \in {"listTrips", "patchTrips", "done"} ELSE r.pc = "done"

\* C27: airtableBatchUpdate sends every update of its input exactly once and
\* in input order, in PATCH requests of 1 to 10 records, and no request for
\* an empty input; after a request that failed no further chunk is sent, and
\* the chunks sent before it stay applied in the store while the records of
\* the chunks not sent are as they were.
C27_ChunksInOrderOnce ==
    \A p \in DOMAIN runs : \A t \in TagTables :
        LET es == PatchesSent(p, t)
            ups == UpdatesFor(runs[p], t)
            sent == RecordsOf(es)
            okSent == RecordsOf(SelectSeq(es, LAMBDA e : e.status = "ok"))
        IN  /\ \A i \in 1..Len(es) : Len(es[i].records) \in 1..10
            /\ Len(sent) <= Len(ups)
            /\ sent = SubSeq(ups, 1, Len(sent))
            /\ \A i \in 1..(Len(es) - 1) : es[i].status = "ok"
            /\ BatchReturned(runs[p], t) => okSent = ups
            /\ \A j \in 1..Len(okSent) :
                \E k \in 1..Len(store[t]) :
                    /\ store[t][k].id = okSent[j].id
                    /\ store[t][k].fields[FIELD_EPOCH] = okSent[j].fields[FIELD_EPOCH]
            /\ \A k \in 1..Len(store[t]) :
                (\A j \in 1..Len(okSent) : okSent[j].id # store[t][k].id)
                    => store[t][k].fields = (IF t = TABLE_SCHEDULE
                                             THEN SchedRecord(<<>>, D_iso, Tm_1400, <<>>, OutBlank)
                                             ELSE TripRecord(<<>>, NumV(0), D_iso, Tm_1400,
                                                             <<>>, <<>>, OutBlank))

\* 25 schedule updates: two chunks of 10 are applied, the third request (the
\* last 5) fails and ends the run
C27_Witness ==
    \E p \in DOMAIN runs :
        LET es == PatchesSent(p, TABLE_SCHEDULE)
        IN  /\ runs[p].pc = "failed"
            /\ Len(runs[p].schedUpdates) = 25
            /\ Len(es) = 3
            /\ es[3].status = "http_error" /\ Len(es[3].records) = 5
            /\ store[TABLE_SCHEDULE][20].fields[FIELD_EPOCH] = NumV(runs[p].tagClk.nowEpoch)
            /\ store[TABLE_SCHEDULE][21].fields[FIELD_EPOCH] = UndefV

----------------------------------------------------------------------------
(* The washer demo loop (src/unnamed/part_000).  The loop's state is kept  *)
(* in runs, what it logged and requested in log; store.hot is the table as *)
(* the HOT view lists it.                                                  *)

FIELD_LOCK_UNTIL == "lock_until_epoch"

MaxTicks == 3
MaxWashRecs == 2

\* n(v) of line 106: Number(v) when finite, else null.  Number(null) is 0,
\* Number(undefined) is NaN.
nOf(v) ==
    IF v.t = "num" THEN NumV(v.v)
    ELSE IF v.t = "null" THEN NumV(0)
    ELSE NullV

\* variant of the test of line 139 with the lock left out
IsDueLockIgnored(f, nowEpoch) ==
    LET nextDue == nOf(f[FIELD_NEXT_DUE])
    IN  ~IsNullish(nextDue) /\ nextDue.v <= nowEpoch

\* lines 136-139
IsDue(f, nowEpoch) ==
    LET nextDue == nOf(f[FIELD_NEXT_DUE])
        lockUntil == IF IsNullish(nOf(f[FIELD_LOCK_UNTIL])) THEN 0 ELSE nOf(f[FIELD_LOCK_UNTIL]).v
    IN  ~IsNullish(nextDue) /\ nextDue.v <= nowEpoch /\ lockUntil <= nowEpoch

\* lines 133-142: the due list, in the order of the listing
RECURSIVE DueOf(_, _)
DueOf(records, nowEpoch) ==
    IF records = <<>> THEN <<>>
    ELSE (IF IsDue(records[1].fields, nowEpoch) THEN <<records[1]>> ELSE <<>>)
         \o DueOf(Tail(records), nowEpoch)

WashRecord(nextDue, lockUntil) ==
    [next_due_epoch |-> nextDue, lock_until_epoch |-> lockUntil, bucket |-> "HOT"]

WashFields ==
    { WashRecord(NumV(90), UndefV),
      WashRecord(NumV(90), NumV(150)),
      WashRecord(NumV(160), NullV),
      WashRecord(NullV, UndefV),
      WashRecord(UndefV, UndefV) }

\* the values getServerNowMs returns, in milliseconds
WashNowMs == {100999, 125000, 170500}

WashInit ==
    /\ \E tbl \in Tables("rec", WashFields, MaxWashRecs)
                    \cup {BatchTable("rec", WashRecord(NumV(90), UndefV), 12)} :
         store = [hot |-> tbl]
    /\ \E w \in BOOLEAN :
         runs = [pc |-> "loop", DO_WRITE |-> w, tick |-> 0, nowEpoch |-> 0,
                 due |-> <<>>, j |-> 0]
    /\ log = <<>>
    /\ clockSeq = 0
    /\ probe = NoProbe

ChurnLine(d) ==
    [ev |-> "churn", tick |-> runs.tick, now |-> runs.nowEpoch, id |-> d.id, fields |-> d.fields]

\* lines 118-122: the loop test passes, the tick is counted and the server
\* time fetched
WasherGetServerNowMs ==
    /\ runs.pc = "loop"
    /\ runs.tick < MaxTicks
    /\ \E nowMs \in WashNowMs :
         runs' = [runs EXCEPT !.pc = "list", !.tick = @ + 1, !.nowEpoch = nowMs \div 1000,
                              !.due = <<>>, !.j = 0]
    /\ UNCHANGED <<store, log, clockSeq, probe>>

\* line 118: the loop time is over
WasherEnd ==
    /\ runs.pc = "loop"
    /\ runs' = [runs EXCEPT !.pc = "end"]
    /\ UNCHANGED <<store, log, clockSeq, probe>>

\* lines 124-151: the listing, the due detection and, without DO_WRITE, the
\* whole churn loop; with DO_WRITE the churn loop stops at each patch
WasherList ==
    /\ runs.pc = "list"
    /\ \E o \in {"ok", "http_error"} :
         IF o # "ok"
         THEN /\ log' = Append(log, [ev |-> "list", tick |-> runs.tick, status |-> o])
              /\ runs' = [runs EXCEPT !.pc = "sleep"]
         ELSE LET due == DueOf(store.hot, runs.nowEpoch)
                  head == SubSeq(due, 1, Min({10, Len(due)}))
              IN  IF runs.DO_WRITE /\ due # <<>>
                  THEN /\ log' = Append(log, [ev |-> "list", tick |-> runs.tick, status |-> o])
                       /\ runs' = [runs EXCEPT !.pc = "churn", !.due = due, !.j = 1]
                  ELSE /\ log' = Append(log, [ev |-> "list", tick |-> runs.tick, status |-> o])
                                 \o [k \in 1..Len(head) |-> ChurnLine(head[k])]
                       /\ runs' = [runs EXCEPT !.pc = "sleep", !.due = due]
    /\ UNCHANGED <<store, clockSeq, probe>>

\* lines 149-160 with DO_WRITE: the CHURN line and the patch of one due record
WasherChurn ==
    /\ runs.pc = "churn"
    /\ LET d == runs.due[runs.j]
           fields == [lock_until_epoch |-> NumV(runs.nowEpoch + 60),
                      next_due_epoch |-> NumV(runs.nowEpoch + 20)]
       IN  \E o \in {"ok", "http_error"} :
             /\ log' = log \o <<ChurnLine(d),
                                [ev |-> "patch", tick |-> runs.tick, now |-> runs.nowEpoch,
                                 id |-> d.id, fields |-> fields, status |-> o]>>
             /\ IF o # "ok"
                THEN /\ runs' = [runs EXCEPT !.pc = "failed"]
                     /\ UNCHANGED store
                ELSE /\ store' = [store EXCEPT !.hot =
                                    PatchTable(@, <<[id |-> d.id, fields |-> fields]>>)]
                     /\ runs' = IF runs.j < Min({10, Len(runs.due)})
                                THEN [runs EXCEPT !.j = @ + 1]
                                ELSE [runs EXCEPT !.pc = "sleep"]
    /\ UNCHANGED <<clockSeq, probe>>

\* lines 129 and 162
WasherSleep ==
    /\ runs.pc = "sleep"
    /\ runs' = [runs EXCEPT !.pc = "loop"]
    /\ UNCHANGED <<store, log, clockSeq, probe>>

WashNext ==
    \/ WasherGetServerNowMs
    \/ WasherEnd
    \/ WasherList
    \/ WasherChurn
    \/ WasherSleep

SpecWash == WashInit /\ [][WashNext]_vars

----------------------------------------------------------------------------
(* Properties of the washer (checked under SpecWash)                       *)

\* lock_until_epoch as the claim reads it: 0 when absent
LockOrZero(f) == IF f[FIELD_LOCK_UNTIL].t = "num" THEN f[FIELD_LOCK_UNTIL].v ELSE 0

\* the entries of the log that are patch requests of tick k
PatchesOfTick(k) == {i \in 1..Len(log) : log[i].ev = "patch" /\ log[i].tick = k}

\* C23: a record is churned at a tick only if its next_due_epoch is a number
\* not above the tick's server time and its lock_until_epoch (0 when absent)
\* is not above it either; without DO_WRITE nothing is ever patched; with
\* DO_WRITE each patch is of the record just churned, and a tick makes at
\* most 10 patches.
C23_ChurnOnlyDueUnlocked ==
    /\ \A i \in 1..Len(log) :
         log[i].ev = "churn" =>
            /\ log[i].fields[FIELD_NEXT_DUE].t = "num"
            /\ log[i].fields[FIELD_NEXT_DUE].v <= log[i].now
            /\ LockOrZero(log[i].fields) <= log[i].now
    /\ ~runs.DO_WRITE => \A i \in 1..Len(log) : log[i].ev # "patch"
    /\ \A i \in 1..Len(log) :
         log[i].ev = "patch" =>
            /\ i > 1
            /\ log[i - 1].ev = "churn"
            /\ log[i - 1].id = log[i].id
            /\ log[i - 1].tick = log[i].tick
    /\ \A k \in 1..MaxTicks : Cardinality(PatchesOfTick(k)) <= 10

\* C28: with DO_WRITE, a record patched at a tick with server time t is not
\* churned (and so not patched) at any later tick whose server time is
\* below t + 60.  It holds whether or not the server time goes back.
C28_LockedFor60Seconds ==
    \A i \in 1..Len(log) : \A j \in 1..Len(log) :
        (/\ log[i].ev = "patch" /\ log[i].status = "ok"
         /\ log[j].ev \in {"churn", "patch"}
         /\ log[j].id = log[i].id
         /\ log[j].tick > log[i].tick)
            => log[j].now >= log[i].now + 60

\* a record patched at server time 100 is listed again at 125, when its new
\* due time 120 has passed, and left alone; at 170 it is churned again
C28_Witness ==
    /\ runs.DO_WRITE
    /\ \E i, j, k \in 1..Len(log) :
         /\ log[i].ev = "patch" /\ log[i].status = "ok" /\ log[i].now = 100 /\ log[i].tick = 1
         /\ log[j].ev = "list" /\ log[j].status = "ok" /\ log[j].tick = 2
         /\ log[k].ev = "churn" /\ log[k].id = log[i].id /\ log[k].tick = 3 /\ log[k].now = 170
         /\ \A m \in 1..Len(log) : (log[m].ev = "churn" /\ log[m].tick = 2) => log[m].id # log[i].id
    /\ runs.tick = 3 /\ runs.pc = "sleep"

----------------------------------------------------------------------------
(* The publisher job (src/unnamed/part_001, lines 329-502).  store.queue   *)
(* is the publish_queue table, store.views the rows each view of the       *)
(* source table lists, store.published the JSON behind each published      *)
(* path.  A record's paths1 / paths2 hold the path list parsePaths gives.  *)
(* One call of commitBulk is one step here; its retries are the subject of *)
(* SpecCommit.                                                             *)

MaxQueue == 2

\* the requests of one run that fail (listings, preflights, commits, patches)
MaxFaults == 2

\* Boolean(v) of line 427 on a cell
Truthy(c) == (c.t = "bool" /\ c.v = 1) \/ (c.t = "num" /\ c.v # 0)

\* lines 329-337: one object per record with exactly the allowed fields, null
\* for a field the record lacks
buildRowsFromRecords(records, allowedFields) ==
    [k \in 1..Len(records) |->
        [f \in {allowedFields[i] : i \in 1..Len(allowedFields)} |->
            IF f \in DOMAIN records[k].fields THEN records[k].fields[f] ELSE NullV]]

\* what preflightGetJson returns for a path: the parsed JSON, or a failure
\* (a status that is not ok, a body that is not JSON, or fetch rejecting)
PreflightAnswers(published) ==
    { [ok |-> TRUE, json |-> published],
      [ok |-> FALSE, json |-> <<>>] }

\* variant: a path whose preflight failed is left out of the commit
ChangedFilesOnlyDiffering(paths, pre, rows) ==
    LET changed == {i \in 1..Len(paths) : pre[i].ok /\ pre[i].json # rows}
        F[i \in 0..Len(paths)] ==
            IF i = 0 THEN <<>>
            ELSE IF i \in changed THEN Append(F[i - 1], [path |-> paths[i], content |-> rows])
            ELSE F[i - 1]
    IN  F[Len(paths)]

\* lines 356-382: the files of the paths whose preflight failed or whose
\* published JSON differs from the rows, in the order of the paths
ChangedFiles(paths, pre, rows) ==
    LET changed == {i \in 1..Len(paths) : ~pre[i].ok \/ pre[i].json # rows}
        F[i \in 0..Len(paths)] ==
            IF i = 0 THEN <<>>
            ELSE IF i \in changed THEN Append(F[i - 1], [path |-> paths[i], content |-> rows])
            ELSE F[i - 1]
    IN  F[Len(paths)]

\* the results of publishDatasetSlot; reason and skipped are absent ("" and
\* FALSE here) where the code leaves them out
SlotResult(ok, skipped, reason, committed) ==
    [ok |-> ok, skipped |-> skipped, reason |-> reason, committed |-> committed]

NoSlotResult == SlotResult(TRUE, TRUE, "no_slot2", 0)

\* the call did not return: it threw
SlotThrew == SlotResult(FALSE, FALSE, "thrown", 0)

SourceRows ==
    <<[id |-> <<"row", 1>>, fields |-> [sid |-> NumV(1), total_trips |-> NumV(3), temp |-> NumV(7)]],
      [id |-> <<"row", 2>>, fields |-> [sid |-> NumV(2), temp |-> NumV(7)]]>>

PubAllowed == <<"sid", "total_trips">>

QueueFields(dirty, view1, paths1, view2, paths2) ==
    [dataset_key |-> "watch_schedule", dirty |-> dirty, dirty_reason |-> "changed",
     last_publish_epoch |-> NumV(1710000000), table_name |-> "watch_schedule",
     table_view1 |-> view1, paths1 |-> paths1, table_view2 |-> view2, paths2 |-> paths2,
     allowed_fields |-> PubAllowed]

PubQueueFields ==
    { QueueFields(BoolV(TRUE), "v1", <<"a.json", "b.json">>, "", <<>>),
      QueueFields(BoolV(TRUE), "v1", <<"a.json">>, "v2", <<"c.json">>),
      QueueFields(BoolV(TRUE), "", <<"a.json">>, "v2", <<>>) }

\* a queue record that is not dirty (the checkbox is absent from the listing)
CleanRecord(k) == [id |-> <<"pq", k>>, fields |-> QueueFields(UndefV, "v1", <<"a.json">>, "", <<>>)]

PubPaths == {"a.json", "b.json", "c.json"}

PubInit ==
    /\ \E q \in Tables("pq", PubQueueFields, MaxQueue) :
       \E stale \in SUBSET {"a.json", "c.json"} :
         store = [queue |-> Append(q, CleanRecord(Len(q) + 1)),
                  views |-> [v1 |-> SourceRows, v2 |-> SubSeq(SourceRows, 1, 1)],
                  published |->
                      [p \in PubPaths |->
                          IF p \in stale THEN <<>>
                          ELSE buildRowsFromRecords(
                                   IF p = "c.json" THEN SubSeq(SourceRows, 1, 1) ELSE SourceRows,
                                   PubAllowed)]]
    /\ \E d \in BOOLEAN :
         runs = [pc |-> "start", DRY_RUN |-> d, epochSec |-> 0, dirty |-> <<>>, idx |-> 0,
                 faults |-> 0,
                 slot |-> 0, res1 |-> NoSlotResult, res2 |-> NoSlotResult]
    /\ log = <<>>
    /\ clockSeq = 0
    /\ probe = NoProbe

\* lines 405-428: the epoch, the listing of the queue (a failure here ends
\* main), the dirty records
PubStart ==
    /\ runs.pc = "start"
    /\ \E o \in {"ok", "error"} :
         /\ log' = Append(log, [ev |-> "list", table |-> "publish_queue", status |-> o])
         /\ runs' =
              IF o # "ok" THEN [runs EXCEPT !.pc = "fatal", !.faults = @ + 1]
              ELSE LET dirty == SelectSeq(store.queue, LAMBDA r : Truthy(r.fields.dirty))
                   IN  [runs EXCEPT !.pc = IF dirty = <<>> THEN "done" ELSE "slot",
                                    !.epochSec = 1710075600, !.dirty = dirty,
                                    !.idx = 1, !.slot = 1]
    /\ UNCHANGED <<store, clockSeq, probe>>

\* line 430: the loop goes to the next dirty record
NextDirty(r) ==
    IF r.idx < Len(r.dirty)
    THEN [r EXCEPT !.pc = "slot", !.idx = @ + 1, !.slot = 1,
                   !.res1 = NoSlotResult, !.res2 = NoSlotResult]
    ELSE [r EXCEPT !.pc = "done"]

\* lines 449-469: main takes the result of a slot; slot 2 is called only
\* when it has a view and paths
SlotReturned(r, res) ==
    LET f == r.dirty[r.idx].fields
    IN  IF r.slot = 1
        THEN IF f.table_view2 # "" /\ f.paths2 # <<>>
             THEN [r EXCEPT !.res1 = res, !.slot = 2]
             ELSE [r EXCEPT !.res1 = res, !.res2 = NoSlotResult, !.pc = "clear"]
        ELSE [r EXCEPT !.res2 = res, !.pc = "clear"]

\* the log entry of one call of publishDatasetSlot
SlotEntry(listed, rows, pre, files, commit, result) ==
    [ev |-> "slot", rec |-> runs.dirty[runs.idx].id, slot |-> runs.slot,
     paths |-> IF runs.slot = 1 THEN runs.dirty[runs.idx].fields.paths1
               ELSE runs.dirty[runs.idx].fields.paths2,
     listed |-> listed, rows |-> rows, pre |-> pre, files |-> files,
     commit |-> commit, result |-> result]

\* lines 339-394: one call of publishDatasetSlot
PubPublishSlot ==
    /\ runs.pc = "slot"
    /\ LET f == runs.dirty[runs.idx].fields
           tableName == f.table_name
           viewName == IF runs.slot = 1 THEN f.table_view1 ELSE f.table_view2
           paths == IF runs.slot = 1 THEN f.paths1 ELSE f.paths2
           allowedFields == f.allowed_fields
           Skip(reason) ==
               /\ log' = Append(log, SlotEntry(FALSE, <<>>, <<>>, <<>>, "none",
                                               SlotResult(TRUE, TRUE, reason, 0)))
               /\ runs' = SlotReturned(runs, SlotResult(TRUE, TRUE, reason, 0))
               /\ UNCHANGED store
       IN  IF tableName = "" \/ viewName = "" THEN Skip("missing_table_or_view")
           ELSE IF paths = <<>> THEN Skip("no_paths")
           ELSE IF allowedFields = <<>> THEN Skip("no_allowed_fields")
           ELSE
             \/ \* airtableListAll throws
                /\ runs.faults < MaxFaults
                /\ log' = Append(log, SlotEntry(FALSE, <<>>, <<>>, <<>>, "none", SlotThrew))
                /\ runs' = [runs EXCEPT !.pc = "catch", !.faults = @ + 1]
                /\ UNCHANGED store
             \/ \E pre \in [1..Len(paths) -> UNION {PreflightAnswers(store.published[p]) : p \in PubPaths}] :
                  /\ \A i \in 1..Len(paths) : pre[i] \in PreflightAnswers(store.published[paths[i]])
                  /\ LET rows == buildRowsFromRecords(store.views[viewName], allowedFields)
                         changedFiles == ChangedFiles(paths, pre, rows)
                         failed == runs.faults + Cardinality({i \in 1..Len(paths) : ~pre[i].ok})
                         Return(commit, res) ==
                             /\ failed + (IF commit = "fail" THEN 1 ELSE 0) <= MaxFaults
                             /\ log' = Append(log, SlotEntry(TRUE, rows, pre, changedFiles, commit, res))
                             /\ runs' = SlotReturned([runs EXCEPT !.faults =
                                            failed + (IF commit = "fail" THEN 1 ELSE 0)], res)
                     IN  IF changedFiles = <<>>
                         THEN Return("none", SlotResult(TRUE, TRUE, "no_change", 0)) /\ UNCHANGED store
                         ELSE IF runs.DRY_RUN
                         THEN Return("none", SlotResult(TRUE, TRUE, "dry_run", 0)) /\ UNCHANGED store
                         ELSE \/ /\ Return("ok", SlotResult(TRUE, FALSE, "", Len(changedFiles)))
                                 /\ store' = [store EXCEPT !.published =
                                                [p \in PubPaths |->
                                                    IF \E i \in 1..Len(changedFiles) : changedFiles[i].path = p
                                                    THEN rows ELSE @[p]]]
                              \/ /\ Return("fail", SlotResult(FALSE, FALSE, "", 0))
                                 /\ UNCHANGED store
                              \/ /\ failed < MaxFaults
                                 /\ log' = Append(log, SlotEntry(TRUE, rows, pre, changedFiles,
                                                                 "throw", SlotThrew))
                                 /\ runs' = [runs EXCEPT !.pc = "catch", !.faults = failed + 1]
                                 /\ UNCHANGED store
    /\ UNCHANGED <<clockSeq, probe>>

\* one PATCH of a queue record by airtableUpdateRecord
QueuePatch(fields, o) ==
    /\ o # "ok" => runs.faults < MaxFaults
    /\ log' = Append(log, [ev |-> "patch", rec |-> runs.dirty[runs.idx].id,
                           fields |-> fields, status |-> o])
    /\ store' = IF o = "ok"
                THEN [store EXCEPT !.queue =
                        PatchTable(@, <<[id |-> runs.dirty[runs.idx].id, fields |-> fields]>>)]
                ELSE store

\* lines 471-485: the patch that clears dirty; when it throws the catch
\* block is entered
PubClearDirty ==
    /\ runs.pc = "clear"
    /\ \E o \in {"ok", "error"} :
         /\ QueuePatch([dirty |-> BoolV(FALSE),
                        last_publish_epoch |-> NumV(runs.epochSec),
                        dirty_reason |->
                            IF runs.res1.reason = "no_change" /\ runs.res2.reason = "no_change"
                            THEN "skipped: no change"
                            ELSE IF runs.DRY_RUN THEN "dry_run" ELSE "published"], o)
         /\ runs' = IF o = "ok" THEN NextDirty(runs)
                    ELSE [runs EXCEPT !.pc = "catch", !.faults = @ + 1]
    /\ UNCHANGED <<clockSeq, probe>>

\* variant: a failure of the patch in the catch block ends main
CatchPatchFailedFatal(r) == [r EXCEPT !.pc = "fatal"]

\* line 497: a failure of the patch in the catch block is swallowed
CatchPatchFailed(r) == NextDirty(r)

\* lines 486-498: the catch block stamps the reason
PubCatch ==
    /\ runs.pc = "catch"
    /\ \E o \in {"ok", "error"} :
         /\ QueuePatch([dirty_reason |-> "error"], o)
         /\ runs' = IF o = "ok" THEN NextDirty(runs)
                    ELSE CatchPatchFailed([runs EXCEPT !.faults = @ + 1])
    /\ UNCHANGED <<clockSeq, probe>>

PubNext ==
    \/ PubStart
    \/ PubPublishSlot
    \/ PubClearDirty
    \/ PubCatch

SpecPub == PubInit /\ [][PubNext]_vars

----------------------------------------------------------------------------
(* Properties of the publisher (checked under SpecPub)                     *)

\* the paths of a slot call whose preflight failed or whose published JSON
\* differs from the exported rows
ChangedPaths(e) ==
    {e.paths[i] : i \in {k \in 1..Len(e.paths) : ~e.pre[k].ok \/ e.pre[k].json # e.rows}}

CommittedPaths(e) == {e.files[i].path : i \in 1..Len(e.files)}

\* the call made a commit request with exactly the changed paths, each once
CommitsChanged(e) ==
    /\ e.commit # "none"
    /\ CommittedPaths(e) = ChangedPaths(e)
    /\ Len(e.files) = Cardinality(ChangedPaths(e))

\* C21 as stated: every slot call that came to its preflights commits
\* exactly the changed paths, and makes no commit request when no path
\* changed.
C21_CommitsExactlyChangedPaths ==
    \A i \in 1..Len(log) :
        (log[i].ev = "slot" /\ log[i].listed) =>
            IF ChangedPaths(log[i]) = {} THEN log[i].commit = "none"
            ELSE CommitsChanged(log[i])

\* C21 (amended): without the dry-run flag, every slot call that came to its
\* preflights commits exactly the paths whose preflight failed or whose
\* published JSON differs from the exported rows, and makes no commit
\* request when no path changed; with the dry-run flag, and in a call that
\* is skipped or whose listing throws, no commit request is made.
C21_CommitsExactlyChangedPathsUnlessDryRun ==
    \A i \in 1..Len(log) :
        log[i].ev = "slot" =>
            IF ~log[i].listed \/ runs.DRY_RUN \/ ChangedPaths(log[i]) = {}
            THEN log[i].commit = "none"
            ELSE CommitsChanged(log[i])

\* a.json is published as exported and the preflight of b.json fails: the
\* commit holds b.json alone
C21_Witness ==
    \E i \in 1..Len(log) :
        /\ log[i].ev = "slot" /\ log[i].listed
        /\ log[i].paths = <<"a.json", "b.json">>
        /\ log[i].pre[1].ok /\ log[i].pre[1].json = log[i].rows
        /\ ~log[i].pre[2].ok
        /\ log[i].commit = "ok"
        /\ CommittedPaths(log[i]) = {"b.json"}

\* the slot calls made for the queue record with the given id
SlotCallsOf(id) == {i \in 1..Len(log) : log[i].ev = "slot" /\ log[i].rec = id}

\* C22: with the dry-run flag a run writes nothing: no commit request is
\* made and no queue record is patched, so dirty_reason and
\* last_publish_epoch stay as they were and no dirty flag is cleared.
C22_DryRunWritesNothing ==
    runs.DRY_RUN =>
        /\ \A i \in 1..Len(log) :
             /\ log[i].ev # "patch"
             /\ log[i].ev = "slot" => log[i].commit = "none"
        /\ \A k \in 1..Len(store.queue) :
             /\ store.queue[k].fields.dirty # BoolV(FALSE)
             /\ store.queue[k].fields.dirty_reason = "changed"
             /\ store.queue[k].fields.last_publish_epoch = NumV(1710000000)

\* C24: in a run without the dry-run flag, a queue record's dirty flag is
\* false only if each slot call made for it was skipped with nothing changed
\* (or was not configured) or had its commit succeed; and a record one of
\* whose slot calls had its commit request return failure stays dirty and is
\* not stamped "published".
C24_DirtyClearedOnlyWhenConsistent ==
    ~runs.DRY_RUN =>
        \A k \in 1..Len(store.queue) :
            LET rec == store.queue[k]
            IN  /\ rec.fields.dirty = BoolV(FALSE) =>
                     \A i \in SlotCallsOf(rec.id) :
                         \/ log[i].result.reason = "no_change"
                         \/ log[i].commit = "ok"
                         \/ ~log[i].listed /\ log[i].result.skipped
                /\ (\E i \in SlotCallsOf(rec.id) : log[i].commit = "fail") =>
                     /\ Truthy(rec.fields.dirty)
                     /\ rec.fields.dirty_reason # "published"

\* the record as the run listed it
ListedAs(id) == runs.dirty[CHOOSE j \in 1..Len(runs.dirty) : runs.dirty[j].id = id]

\* C25: a queue record for which a slot call threw (the export's listing or
\* the commit) stays dirty, and of its fields only dirty_reason may differ
\* from what was listed, being then the error text; main ends early only
\* when the listing of the queue itself fails, every dirty record before the
\* current one has been taken up, and at the end every dirty record has.
C25_ThrowKeepsDirtyAndRunGoesOn ==
    /\ \A k \in 1..Len(store.queue) :
         LET rec == store.queue[k]
         IN  (\E i \in SlotCallsOf(rec.id) : log[i].result = SlotThrew) =>
                /\ Truthy(rec.fields.dirty)
                /\ \A f \in DOMAIN rec.fields \ {"dirty_reason"} :
                     rec.fields[f] = ListedAs(rec.id).fields[f]
                /\ rec.fields.dirty_reason \in {ListedAs(rec.id).fields.dirty_reason, "error"}
    /\ runs.pc = "fatal" => \A i \in 1..Len(log) : log[i].ev = "list"
    /\ \A j \in 1..Len(runs.dirty) :
         (j < runs.idx \/ runs.pc = "done") =>
            \E i \in SlotCallsOf(runs.dirty[j].id) : log[i].slot = 1

\* the first record's export throws and the patch of its reason fails too;
\* the second record is still published
C25_Witness ==
    /\ runs.pc = "done"
    /\ Len(runs.dirty) = 2
    /\ \E i \in SlotCallsOf(runs.dirty[1].id) : log[i].result = SlotThrew
    /\ \E i \in 1..Len(log) :
         /\ log[i].ev = "patch" /\ log[i].rec = runs.dirty[1].id
         /\ log[i].status = "error" /\ DOMAIN log[i].fields = {"dirty_reason"}
    /\ \E i \in SlotCallsOf(runs.dirty[2].id) : log[i].commit = "ok"
    /\ store.queue[1].fields.dirty = BoolV(TRUE)
    /\ store.queue[1].fields.dirty_reason = "changed"
    /\ store.queue[2].fields.dirty = BoolV(FALSE)

====
